---- MODULE Spec2Model ----
(***************************************************************************)
(* Model of the KTP field extractor (app/services/ktp_extractor.py) and    *)
(* of the token providers that feed it.                                    *)
(*                                                                         *)
(* Python strings are modelled as sequences of one-character strings, so   *)
(* that every per-character operation of the code (lower, isdigit, join,   *)
(* replace, strip, edit distance) is computed rather than assumed.         *)
(***************************************************************************)
EXTENDS Integers, Sequences, FiniteSets, TLC

VARIABLES
    source, target, dist,          \* one evaluation of levenshtein
    date_string, date_result,      \* one evaluation of extract_date
    self_max_x,                         \* ktp_extractor.self_max_x, the module-level instance
    pc,                            \* where the request handler stands
    provider, ocr_result,       \* the OCR result handed to the extractor
    result,                        \* the outcome of extract_ktp_data
    calls,                         \* the extract_ktp_data calls in flight
    occupation, normalized,        \* one evaluation of normalize_occupation
    raw_ttl, ttl_record,           \* one evaluation of _process_extracted_data
    use_google, google_ocr,        \* SmartOCRService's fields set by __init__
    smart_pc, called_method,       \* where a SmartOCRService call stands, and which
    invoked,                       \* the providers the call has invoked, in order
    google_reply, paddle_reply,    \* what each provider's call did
    returned                       \* what the call handed to its caller

levVars == <<source, target, dist>>
dateVars == <<date_string, date_result>>
reqVars == <<pc, provider, ocr_result, result>>
normVars == <<occupation, normalized, raw_ttl, ttl_record>>
smartVars == <<use_google, google_ocr, smart_pc, called_method, invoked, google_reply,
               paddle_reply, returned>>
vars == <<source, target, dist, date_string, date_result, self_max_x, pc, provider,
          ocr_result, result, calls, occupation, normalized, raw_ttl, ttl_record,
          use_google, google_ocr, smart_pc, called_method, invoked, google_reply,
          paddle_reply, returned>>

----------------------------------------------------------------------------
(* Generic helpers *)

Min2(a, b) == IF a < b THEN a ELSE b

Max2(a, b) == IF a > b THEN a ELSE b

Abs(a) == IF a < 0 THEN -a ELSE a

\* The sequence f[1], ..., f[n] of a function f on 1..n, as a list
AsList(f, n) == SubSeq(f, 1, n)

RECURSIVE SeqsUpTo(_, _)
\* All sequences over S of length 0..n
SeqsUpTo(S, n) ==
    IF n = 0 THEN {<<>>}
    ELSE LET shorter == SeqsUpTo(S, n - 1)
         IN shorter \cup {Append(s, c) : s \in {t \in shorter : Len(t) = n - 1}, c \in S}


RECURSIVE SubSeqsUpTo(_, _)
\* All subsequences of s, in the order of s, with at most n elements
SubSeqsUpTo(s, n) ==
    IF Len(s) = 0 \/ n = 0 THEN {<<>>}
    ELSE SubSeqsUpTo(Tail(s), n)
             \cup {<<Head(s)>> \o t : t \in SubSeqsUpTo(Tail(s), n - 1)}
----------------------------------------------------------------------------
(* levenshtein, ktp_extractor.py:8-29 *)

\* np.arange(target.size + 1)
ArangeRow(n) == AsList([j \in 1..(n + 1) |-> j - 1], n + 1)

\* The loop body with the comparison of line 23 inverted (target == s)
LevRowStepInverted(previous_row, s, tgt) ==
    LET n == Len(tgt)
        row0 == AsList([j \in 1..(n + 1) |-> previous_row[j] + 1], n + 1)
        row1 == AsList([j \in 1..(n + 1) |->
                           IF j = 1 THEN row0[1]
                           ELSE Min2(row0[j],
                                     previous_row[j - 1]
                                         + (IF tgt[j - 1] = s THEN 1 ELSE 0))], n + 1)
    IN AsList([j \in 1..(n + 1) |->
                  IF j = 1 THEN row1[1]
                  ELSE Min2(row1[j], row1[j - 1] + 1)], n + 1)

\* One iteration of the loop body (lines 20-27).  Every numpy statement is
\* vectorised: its right-hand side is computed from the arrays as they are
\* before the assignment.
LevRowStep(previous_row, s, tgt) ==
    LET n == Len(tgt)
        row0 == AsList([j \in 1..(n + 1) |-> previous_row[j] + 1], n + 1)
        row1 == AsList([j \in 1..(n + 1) |->
                           IF j = 1 THEN row0[1]
                           ELSE Min2(row0[j],
                                     previous_row[j - 1]
                                         + (IF tgt[j - 1] # s THEN 1 ELSE 0))], n + 1)
    IN AsList([j \in 1..(n + 1) |->
                  IF j = 1 THEN row1[1]
                  ELSE Min2(row1[j], row1[j - 1] + 1)], n + 1)

RECURSIVE LevRows(_, _, _, _)
\* The loop of lines 19-27 from source character i on.  Each row is computed
\* before the next iteration starts.
LevRows(src, tgt, i, previous_row) ==
    IF i > Len(src) THEN previous_row
    ELSE LET current_row == LevRowStep(previous_row, src[i], tgt)
         IN IF Len(current_row) > 0
            THEN LevRows(src, tgt, i + 1, current_row)
            ELSE current_row

levenshtein(src, tgt) ==
    LET long == IF Len(src) < Len(tgt) THEN tgt ELSE src
        short == IF Len(src) < Len(tgt) THEN src ELSE tgt
    IN IF Len(short) = 0 THEN Len(long)
       ELSE LevRows(long, short, 1, ArangeRow(Len(short)))[Len(short) + 1]

----------------------------------------------------------------------------
(* Reference definition used by the claims about levenshtein: the classic  *)
(* unit-cost edit distance (Wagner-Fischer), insertions applied            *)
(* cumulatively along the row.                                             *)

RECURSIVE ClassicRow(_, _, _, _, _)
\* Builds the row for source character s cell by cell, left to right.
ClassicRow(prev, s, tgt, j, acc) ==
    IF j > Len(tgt) + 1 THEN acc
    ELSE LET cell == IF j = 1 THEN prev[1] + 1
                     ELSE Min2(Min2(prev[j] + 1, acc[j - 1] + 1),
                               prev[j - 1] + (IF tgt[j - 1] # s THEN 1 ELSE 0))
         IN ClassicRow(prev, s, tgt, j + 1, Append(acc, cell))

RECURSIVE ClassicRows(_, _, _, _)
ClassicRows(src, tgt, i, prev) ==
    IF i > Len(src) THEN prev
    ELSE LET row == ClassicRow(prev, src[i], tgt, 1, <<>>)
         IN IF Len(row) > 0 THEN ClassicRows(src, tgt, i + 1, row) ELSE row

EditDistance(a, b) == ClassicRows(a, b, 1, ArangeRow(Len(b)))[Len(b) + 1]

----------------------------------------------------------------------------
(* Characters and Python string predicates *)

Digits == {"0", "1", "2", "3", "4", "5", "6", "7", "8", "9"}

DigitVal(c) ==
    CASE c = "0" -> 0 [] c = "1" -> 1 [] c = "2" -> 2 [] c = "3" -> 3
      [] c = "4" -> 4 [] c = "5" -> 5 [] c = "6" -> 6 [] c = "7" -> 7
      [] c = "8" -> 8 [] c = "9" -> 9

\* str.isdigit for one character
IsDigit(c) == c \in Digits

RECURSIVE ParseInt(_)
\* int() of a string of digits
ParseInt(s) ==
    IF Len(s) = 0 THEN 0
    ELSE 10 * ParseInt(SubSeq(s, 1, Len(s) - 1)) + DigitVal(s[Len(s)])

IsNotDigit(c) == ~IsDigit(c)

\* ''.join([c for c in s if c.isdigit()])
DigitsOf(s) == SelectSeq(s, IsDigit)

\* ''.join([c for c in s if not c.isdigit()])
NonDigitsOf(s) == SelectSeq(s, IsNotDigit)

----------------------------------------------------------------------------
(* Python string operations used by the extractor *)

LowerLetters == <<"a", "b", "c", "d", "e", "f", "g", "h", "i", "j", "k", "l", "m", "n", "o", "p", "q", "r", "s", "t", "u", "v", "w", "x", "y", "z">>

UpperLetters == <<"A", "B", "C", "D", "E", "F", "G", "H", "I", "J", "K", "L", "M", "N", "O", "P", "Q", "R", "S", "T", "U", "V", "W", "X", "Y", "Z">>

LetterIndex(c, letters) == CHOOSE i \in 1..26 : letters[i] = c

IsUpperChar(c) == \E i \in 1..26 : UpperLetters[i] = c

IsLowerChar(c) == \E i \in 1..26 : LowerLetters[i] = c

\* str.isalpha, str.isspace for one character
IsAlpha(c) == IsUpperChar(c) \/ IsLowerChar(c)

IsSpace(c) == c \in {" ", "\n", "\t"}

LowerChar(c) == IF IsUpperChar(c) THEN LowerLetters[LetterIndex(c, UpperLetters)] ELSE c

UpperChar(c) == IF IsLowerChar(c) THEN UpperLetters[LetterIndex(c, LowerLetters)] ELSE c

\* str.lower, str.upper
Lower(s) == AsList([i \in 1..Len(s) |-> LowerChar(s[i])], Len(s))

Upper(s) == AsList([i \in 1..Len(s) |-> UpperChar(s[i])], Len(s))

\* None, for a value that is otherwise a string
None == <<"<None>">>

\* Truth value of an Optional[str]
Truthy(v) == v # None /\ v # <<>>

RECURSIVE LStrip(_)
LStrip(s) == IF Len(s) > 0 /\ IsSpace(s[1]) THEN LStrip(Tail(s)) ELSE s

RECURSIVE RStrip(_)
RStrip(s) ==
    IF Len(s) > 0 /\ IsSpace(s[Len(s)]) THEN RStrip(SubSeq(s, 1, Len(s) - 1)) ELSE s

\* str.strip
Strip(s) == RStrip(LStrip(s))

RECURSIVE Join(_, _)
\* sep.join(parts)
Join(sep, parts) ==
    IF Len(parts) = 0 THEN <<>>
    ELSE IF Len(parts) = 1 THEN parts[1]
    ELSE parts[1] \o sep \o Join(sep, Tail(parts))

StartsWith(s, pat) == Len(pat) <= Len(s) /\ SubSeq(s, 1, Len(pat)) = pat

RECURSIVE RemoveAll(_, _)
\* s.replace(pat, '') for a non-empty pat: occurrences are removed left to
\* right, without rescanning what the removal brings together
RemoveAll(s, pat) ==
    IF Len(s) = 0 THEN <<>>
    ELSE IF StartsWith(s, pat) THEN RemoveAll(SubSeq(s, Len(pat) + 1, Len(s)), pat)
    ELSE <<s[1]>> \o RemoveAll(Tail(s), pat)

RECURSIVE SplitAcc(_, _, _)
SplitAcc(s, sep, cur) ==
    IF Len(s) = 0 THEN <<cur>>
    ELSE IF StartsWith(s, sep)
         THEN <<cur>> \o SplitAcc(SubSeq(s, Len(sep) + 1, Len(s)), sep, <<>>)
    ELSE SplitAcc(Tail(s), sep, Append(cur, s[1]))

\* s.split(sep) for a non-empty sep
Split(s, sep) == SplitAcc(s, sep, <<>>)

\* Sequence helpers: list.pop(idx) with a 1-based idx, min, np.argmin
RemoveAt(seq, idx) == SubSeq(seq, 1, idx - 1) \o SubSeq(seq, idx + 1, Len(seq))

SeqMin(seq) == CHOOSE m \in {seq[i] : i \in 1..Len(seq)} : \A i \in 1..Len(seq) : m <= seq[i]

SeqMax(seq) == CHOOSE m \in {seq[i] : i \in 1..Len(seq)} : \A i \in 1..Len(seq) : m >= seq[i]

\* First position of the minimum
ArgMin(seq) == CHOOSE i \in 1..Len(seq) :
                   /\ seq[i] = SeqMin(seq)
                   /\ \A j \in 1..(i - 1) : seq[j] # seq[i]

\* [f(x) for x in seq]
MapSeq(seq, f(_)) == AsList([i \in 1..Len(seq) |-> f(seq[i])], Len(seq))
----------------------------------------------------------------------------
(* extract_date, ktp_extractor.py:218-242 *)

\* A datetime is <<year, month, day>>; None is NoDate.  ValueError and
\* Raised are the outcomes of an exception inside, respectively escaping,
\* extract_date.
NoDate == <<0, 0, 0>>

ValueError == <<-1, -1, -1>>

Raised == <<-2, -2, -2>>

IsLeap(y) == (y % 4 = 0) /\ ((y % 100 # 0) \/ (y % 400 = 0))

DaysInMonth(y, m) ==
    IF m = 2 THEN (IF IsLeap(y) THEN 29 ELSE 28)
    ELSE IF m \in {4, 6, 9, 11} THEN 30 ELSE 31

\* The alternatives of strptime's %d: 3[0-1] | [1-2]\d | 0[1-9] | [1-9],
\* anchored on both sides by the regex that produced the text.
StrpDayOk(d) ==
    \/ Len(d) = 2 /\ d[1] = "3" /\ d[2] \in {"0", "1"}
    \/ Len(d) = 2 /\ d[1] \in {"1", "2"} /\ IsDigit(d[2])
    \/ Len(d) = 2 /\ d[1] = "0" /\ d[2] \in Digits \ {"0"}
    \/ Len(d) = 1 /\ d[1] \in Digits \ {"0"}

\* The alternatives of strptime's %m: 1[0-2] | 0[1-9] | [1-9]
StrpMonthOk(m) ==
    \/ Len(m) = 2 /\ m[1] = "1" /\ m[2] \in {"0", "1", "2"}
    \/ Len(m) = 2 /\ m[1] = "0" /\ m[2] \in Digits \ {"0"}
    \/ Len(m) = 1 /\ m[1] \in Digits \ {"0"}

\* datetime.strptime(d-m-y, '%d-%m-%Y') for digit strings d, m (1 or 2
\* digits) and y (4 digits): the format regex must consume the text, and
\* the datetime constructor rejects year 0 and days past the month's end.
Strptime(d, m, y) ==
    IF ~(StrpDayOk(d) /\ StrpMonthOk(m)) THEN ValueError
    ELSE LET dd == ParseInt(d)
             mm == ParseInt(m)
             yy == ParseInt(y)
         IN IF yy < 1 \/ dd > DaysInMonth(yy, mm) THEN ValueError
            ELSE <<yy, mm, dd>>

AllDigits(s, from, to) == \A k \in from..to : IsDigit(s[k])

\* A match of (\d{1,2}-\d{1,2}-\d{4}) starting at position i with a day of
\* dl and a month of ml digits
DateMatchAt(s, i, dl, ml) ==
    /\ i + dl + ml + 5 <= Len(s)
    /\ AllDigits(s, i, i + dl - 1)
    /\ s[i + dl] = "-"
    /\ AllDigits(s, i + dl + 1, i + dl + ml)
    /\ s[i + dl + ml + 1] = "-"
    /\ AllDigits(s, i + dl + ml + 2, i + dl + ml + 5)

\* Greedy order of the regex engine: two digits before one
DateMatchShapes == <<  <<2, 2>>, <<2, 1>>, <<1, 2>>, <<1, 1>>  >>

HasDateMatchAt(s, i) ==
    \E k \in 1..4 : DateMatchAt(s, i, DateMatchShapes[k][1], DateMatchShapes[k][2])

HasDateMatch(s) == \E i \in 1..Len(s) : HasDateMatchAt(s, i)

\* Where re.findall's first match starts: the leftmost position with a match
FirstMatchPos(s) ==
    CHOOSE p \in 1..Len(s) :
        HasDateMatchAt(s, p) /\ \A q \in 1..(p - 1) : ~HasDateMatchAt(s, q)

\* The first shape, in the engine's order, that matches at position i
FirstShapeAt(s, i) ==
    CHOOSE n \in 1..4 :
        /\ DateMatchAt(s, i, DateMatchShapes[n][1], DateMatchShapes[n][2])
        /\ \A n2 \in 1..(n - 1) :
               ~DateMatchAt(s, i, DateMatchShapes[n2][1], DateMatchShapes[n2][2])

\* tgl.split('-') of the match at i with a day of dl and a month of ml digits
DateGroups(s, i, dl, ml) ==
    << SubSeq(s, i, i + dl - 1),
       SubSeq(s, i + dl + 1, i + dl + ml),
       SubSeq(s, i + dl + ml + 2, i + dl + ml + 5) >>

DateGroupsOfShape(s, i, k) ==
    DateGroups(s, i, DateMatchShapes[k][1], DateMatchShapes[k][2])

DateGroupsAt(s, i) == DateGroupsOfShape(s, i, FirstShapeAt(s, i))

\* re.findall(regex, date_string)[0] split at its hyphens: <<d, m, y>>
FirstDateMatch(s) == DateGroupsAt(s, FirstMatchPos(s))

\* Lines 226-228: strptime of the re-joined groups
StrptimeGroups(t) == Strptime(t[1], t[2], t[3])

\* The fallback reading the last eight digits of eight or more (tgl[-8:])
CompactDateLastEight(tgl) ==
    IF Len(tgl) >= 8
    THEN Strptime(SubSeq(tgl, Len(tgl) - 7, Len(tgl) - 6),
                  SubSeq(tgl, Len(tgl) - 5, Len(tgl) - 4),
                  SubSeq(tgl, Len(tgl) - 3, Len(tgl)))
    ELSE NoDate

\* Lines 230-234: the digits of the string, read as ddmmyyyy when there are
\* exactly eight of them
CompactDate(tgl) ==
    IF Len(tgl) = 8
    THEN Strptime(SubSeq(tgl, 1, 2), SubSeq(tgl, 3, 4), SubSeq(tgl, 5, 8))
    ELSE NoDate

\* Lines 224-234: the date parsed inside the try block, NoDate for the
\* early return of line 234, ValueError when strptime raises.
ParseDate(s) ==
    IF HasDateMatch(s)
    THEN StrptimeGroups(FirstDateMatch(s))
    ELSE CompactDate(DigitsOf(s))

MinYear == 1910

MaxYear == 2100

\* The except clause alone, without the year window of lines 237-238
DateUnchecked(date) == IF date = ValueError THEN NoDate ELSE date

\* Lines 236-242: the year window, and the except clause
DateInRange(date) ==
    IF date = ValueError THEN NoDate
    ELSE IF date = NoDate THEN NoDate
    ELSE IF date[1] < MinYear \/ date[1] > MaxYear THEN NoDate
    ELSE date

extract_date(s) == IF Len(s) = 0 THEN NoDate ELSE DateInRange(ParseDate(s))

----------------------------------------------------------------------------
(* Token Normalizer: KTPExtractor.convert_format, ktp_extractor.py:53-79    *)
(*                                                                         *)
(* A Python dict is a TLA+ record; a key the dict lacks is a field the     *)
(* record lacks.                                                           *)

HasKey(d, k) == k \in DOMAIN d

\* dict.get(k, default)
Get(d, k, default) == IF k \in DOMAIN d THEN d[k] ELSE default

\* Lines 57-62: the entries that are not skipped
HasFourVertices(text) ==
    /\ HasKey(text, "boundingPoly")
    /\ HasKey(text.boundingPoly, "vertices")
    /\ Len(text.boundingPoly.vertices) >= 4

\* Lines 64-76.  pos is not in the code: it records the entry's position in
\* textAnnotations so that properties can tell tokens apart.
Boxes(text, pos) ==
    LET vertices == text.boundingPoly.vertices
        x1 == Get(vertices[1], "x", 0)
        y1 == Get(vertices[1], "y", 0)
        x3 == Get(vertices[3], "x", 0)
        y3 == Get(vertices[3], "y", 0)
    IN [label |-> text.description,
        x1 |-> x1, y1 |-> y1,
        x2 |-> Get(vertices[2], "x", 0), y2 |-> Get(vertices[2], "y", 0),
        x3 |-> x3, y3 |-> y3,
        x4 |-> Get(vertices[4], "x", 0), y4 |-> Get(vertices[4], "y", 0),
        w |-> x3 - x1, h |-> y3 - y1,
        pos |-> pos]

RECURSIVE ConvertFrom(_, _)
ConvertFrom(annotations, i) ==
    IF i > Len(annotations) THEN <<>>
    ELSE IF HasFourVertices(annotations[i])
         THEN <<Boxes(annotations[i], i)>> \o ConvertFrom(annotations, i + 1)
    ELSE ConvertFrom(annotations, i + 1)

\* convert_format as it would fail without the guards of lines 57-62:
\* text['boundingPoly']['vertices'] raises KeyError on an entry lacking
\* either key
ConvertRaisesUnguarded(text_response) ==
    /\ HasKey(text_response, "textAnnotations")
    /\ \E i \in 1..Len(text_response.textAnnotations) :
           \/ ~HasKey(text_response.textAnnotations[i], "boundingPoly")
           \/ ~HasKey(text_response.textAnnotations[i].boundingPoly, "vertices")
           \/ ~HasKey(text_response.textAnnotations[i], "description")

\* text['description'] raises KeyError on an entry that passed the vertex
\* checks and has no description.
ConvertRaises(text_response) ==
    /\ HasKey(text_response, "textAnnotations")
    /\ \E i \in 1..Len(text_response.textAnnotations) :
           /\ HasFourVertices(text_response.textAnnotations[i])
           /\ ~HasKey(text_response.textAnnotations[i], "description")

convert_format(text_response) ==
    IF HasKey(text_response, "textAnnotations")
    THEN ConvertFrom(text_response.textAnnotations, 1)
    ELSE <<>>

----------------------------------------------------------------------------
(* KTPExtractor.calc_degree, ktp_extractor.py:81-84, and its use at line   *)
(* 120: abs(calc_degree(x, y, ww.x1, ww.y1) - degree) < 3.                 *)
(*                                                                         *)
(* calc_degree(x1, y1, x2, y2) is the direction of the vector              *)
(* <<x1 - x2, y1 - y2>> in degrees, normalised into [0, 360).  The model   *)
(* keeps the vector and decides the comparison in integer arithmetic:      *)
(* two directions differ by less than 3 degrees around the circle iff      *)
(* their dot product is positive and |cross| < tan(3 deg) * dot; the       *)
(* difference of the normalised angles is the circular one unless the two  *)
(* directions lie on opposite sides of the 0/360 seam.                     *)

\* atan2(0, 0) = 0: the zero vector has the direction of the positive x axis
Direction(x1, y1, x2, y2) ==
    IF x1 = x2 /\ y1 = y2 THEN <<1, 0>> ELSE <<x1 - x2, y1 - y2>>

\* tan(3 deg) = 0.0524077..., as Tan3Num / Tan3Den
Tan3Num == 5241

Tan3Den == 100000

\* a * Tan3Den < Tan3Num * b for a, b >= 0, without leaving 32 bits
BelowTan3(a, b) ==
    LET q == b \div Tan3Den
        r == b % Tan3Den
        t == a - Tan3Num * q
    IN IF t < 0 THEN TRUE
       ELSE IF t >= Tan3Num THEN FALSE
       ELSE t * Tan3Den < Tan3Num * r

\* The normalised angle lies in (180, 360)
LowerHalf(v) == v[2] < 0

\* abs(degrees(u) - degrees(v)) < 3
DegreeDiffBelow3(u, v) ==
    LET dot == u[1] * v[1] + u[2] * v[2]
        cross == u[1] * v[2] - u[2] * v[1]
    IN /\ dot > 0
       /\ BelowTan3(Abs(cross), dot)
       /\ ~(LowerHalf(u) # LowerHalf(v) /\ u[1] > 0)
----------------------------------------------------------------------------
(* KTPExtractor.__init__, ktp_extractor.py:32-51 *)

fields_config == <<
    [field_name |-> "provinsi", keywords |-> <<"p", "r", "o", "v", "i", "n", "s", "i">>, typo_tolerance |-> 2],
    [field_name |-> "kota", keywords |-> <<"k", "a", "b", "u", "p", "a", "t", "e", "n">>, typo_tolerance |-> 2],
    [field_name |-> "nik", keywords |-> <<"n", "i", "k">>, typo_tolerance |-> 1],
    [field_name |-> "nama", keywords |-> <<"n", "a", "m", "a">>, typo_tolerance |-> 2],
    [field_name |-> "ttl", keywords |-> <<"t", "e", "m", "p", "a", "t", "/", "t", "g", "l">>, typo_tolerance |-> 5],
    [field_name |-> "jenis_kelamin", keywords |-> <<"k", "e", "l", "a", "m", "i", "n">>, typo_tolerance |-> 3],
    [field_name |-> "gol_darah", keywords |-> <<"d", "a", "r", "a", "h">>, typo_tolerance |-> 3],
    [field_name |-> "alamat", keywords |-> <<"a", "l", "a", "m", "a", "t">>, typo_tolerance |-> 2],
    [field_name |-> "rt_rw", keywords |-> <<"r", "t", "/", "r", "w">>, typo_tolerance |-> 3],
    [field_name |-> "kel_desa", keywords |-> <<"k", "e", "l", "/", "d", "e", "s", "a">>, typo_tolerance |-> 4],
    [field_name |-> "kecamatan", keywords |-> <<"k", "e", "c", "a", "m", "a", "t", "a", "n">>, typo_tolerance |-> 3],
    [field_name |-> "agama", keywords |-> <<"a", "g", "a", "m", "a">>, typo_tolerance |-> 3],
    [field_name |-> "status_perkawinan", keywords |-> <<"p", "e", "r", "k", "a", "w", "i", "n", "a", "n">>, typo_tolerance |-> 4],
    [field_name |-> "pekerjaan", keywords |-> <<"p", "e", "k", "e", "r", "j", "a", "a", "n">>, typo_tolerance |-> 4],
    [field_name |-> "kewarganegaraan", keywords |-> <<"k", "e", "w", "a", "r", "g", "a", "n", "e", "g", "a", "r", "a", "a", "n">>, typo_tolerance |-> 4],
    [field_name |-> "berlaku_hingga", keywords |-> <<"b", "e", "r", "l", "a", "k", "u">>, typo_tolerance |-> 4] >>

NumFields == Len(fields_config)

FieldNames == {fields_config[i].field_name : i \in 1..NumFields}

\* self.max_x = 9999 (lines 51 and 277)
MaxXSentinel == 9999

----------------------------------------------------------------------------
(* KTPExtractor.get_attribute_ktp, ktp_extractor.py:86-216                  *)
(*                                                                         *)
(* The outcome of one call is a record:                                    *)
(*   raised  an exception left the call                                    *)
(*   ret     the returned Optional[str]                                    *)
(*   max_x   self.max_x after the call                                     *)
(* and, for the properties only (the code returns none of them):           *)
(*   matched the tokens a distance was computed for (their pos)            *)
(*   anchor  pos of the anchor token, 0 when none was located              *)
(*   keyword the keyword the anchor was located with                       *)
(*   values  pos of the value tokens after collection (line 134)           *)
(*   kept    pos of the value tokens the returned value is built from      *)
(*   thr     the self.max_x read by the pekerjaan filter, NoRead if the    *)
(*           filter read none                                              *)
(*   attempts the number of times get_attribute_ktp was entered: 1, and 2  *)
(*           when the call of line 109 was made                            *)

NoRead == 0 - 1

PosOf(words) == AsList([i \in 1..Len(words) |-> words[i].pos], Len(words))

Outcome(ret, max_x, matched, anchor, keyword, values, kept, thr) ==
    [raised |-> FALSE, ret |-> ret, max_x |-> max_x, matched |-> matched,
     anchor |-> anchor, keyword |-> keyword, values |-> values, kept |-> kept,
     thr |-> thr, attempts |-> 1]

NotFound(max_x, matched) ==
    Outcome(None, max_x, matched, 0, <<>>, <<>>, <<>>, NoRead)

RaisedOutcome(max_x) ==
    [raised |-> TRUE, ret |-> None, max_x |-> max_x, matched |-> <<>>,
     anchor |-> 0, keyword |-> <<>>, values |-> <<>>, kept |-> <<>>,
     thr |-> NoRead, attempts |-> 1]

\* The outcome of a call that returned what its call of line 109 returned
Retried(out) == [out EXCEPT !.attempts = @ + 1]

\* Line 92: the province-name guard of the nama field
NotJawaNusa(word) == Lower(word.label) \notin {<<"j", "a", "w", "a">>, <<"n", "u", "s", "a">>}

\* Lines 95-104: the distance of every token to the keyword, and to the
\* keyword with '/' replaced by a space when it has one
SlashToSpace(kw) ==
    AsList([i \in 1..Len(kw) |-> IF kw[i] = "/" THEN " " ELSE kw[i]], Len(kw))

HasSlash(kw) == \E i \in 1..Len(kw) : kw[i] = "/"

LabelDistance(field_keywords, word) ==
    IF HasSlash(field_keywords)
    THEN Min2(levenshtein(field_keywords, word),
              levenshtein(SlashToSpace(field_keywords), word))
    ELSE levenshtein(field_keywords, word)

LabelDistances(ls_word, field_keywords) ==
    AsList([i \in 1..Len(ls_word) |->
               LabelDistance(field_keywords, Lower(ls_word[i].label))], Len(ls_word))

RowBand == 300

\* Lines 118-120: same row, and on the line through the anchor's top edge
OnAnchorRow(anchor, ww) ==
    /\ Abs(anchor.y1 - ww.y1) < RowBand
    /\ DegreeDiffBelow3(Direction(anchor.x1, anchor.y1, ww.x1, ww.y1),
                        Direction(anchor.x1, anchor.y1, anchor.x2, anchor.y2))

\* Line 123
HasContent(val) == Len(RemoveAll(RemoveAll(val.label, <<" ">>), <<":">>)) > 0

\* d = [levenshtein(keyword, label.lower()) ...]; if d and min(d) <= tol:
\* value_words.pop(np.argmin(d))
WordDistances(keyword, value_words) ==
    AsList([i \in 1..Len(value_words) |->
               levenshtein(keyword, Lower(value_words[i].label))], Len(value_words))

HasMatch(keyword, tol, value_words) ==
    Len(value_words) > 0 /\ SeqMin(WordDistances(keyword, value_words)) <= tol

PopClosest(keyword, tol, value_words) ==
    IF HasMatch(keyword, tol, value_words)
    THEN RemoveAt(value_words, ArgMin(WordDistances(keyword, value_words)))
    ELSE value_words

\* Lines 118-120: the tokens on the anchor's row
OnRowWords(ls_word, anchor) == SelectSeq(ls_word, LAMBDA ww : OnAnchorRow(anchor, ww))

\* Lines 126-129 alone: the 'darah' fragment is left in place
DropGolLabelOnly(value_words) == PopClosest(<<"g", "o", "l", ".">>, 1, value_words)

\* Lines 126-134: at most one 'gol.' and one 'darah' fragment are removed
DropBloodLabels(value_words) ==
    PopClosest(<<"d", "a", "r", "a", "h">>, 1, PopClosest(<<"g", "o", "l", ".">>, 1, value_words))

\* Lines 118-134: the Value Collector
CollectValues(ls_word, anchor) ==
    DropBloodLabels(SelectSeq(OnRowWords(ls_word, anchor), HasContent))

\* The labels joined last to first
JoinLabelsReversed(value_words) ==
    Strip(Join(<<" ">>,
               AsList([i \in 1..Len(value_words) |->
                          value_words[Len(value_words) + 1 - i].label],
                      Len(value_words))))

\* ' '.join([str(val['label']) for val in value_words]).strip()
JoinLabels(value_words) ==
    Strip(Join(<<" ">>, AsList([i \in 1..Len(value_words) |-> value_words[i].label],
                               Len(value_words))))

\* Lines 215-216: None when the joined text is empty
NoneIfEmpty(field_value) == IF Len(field_value) > 0 THEN field_value ELSE None

GenericValue(value_words) == NoneIfEmpty(JoinLabels(value_words))

\* Lines 149-154: the first keyword, in priority order, that some value
\* token matches is popped, and only that one
RECURSIVE PopTtlLabel(_, _)
PopTtlLabel(keywords, value_words) ==
    IF Len(keywords) = 0 THEN value_words
    ELSE IF HasMatch(keywords[1], 2, value_words)
         THEN PopClosest(keywords[1], 2, value_words)
    ELSE PopTtlLabel(Tail(keywords), value_words)

TtlLabels == << <<"l", "a", "h", "i", "r">>, <<"t", "e", "m", "p", "a", "t", "/", "t", "g", "l">>, <<"t", "e", "m", "p", "a", "t">>, <<"t", "g", "l">> >>

\* Lines 157-167
GenderOf(label_lower) ==
    IF levenshtein(<<"l", "a", "k", "i", "-", "l", "a", "k", "i">>, label_lower) <= 2 THEN <<"L", "A", "K", "I", "-", "L", "A", "K", "I">>
    ELSE IF levenshtein(<<"l", "a", "k", "i">>, label_lower) <= 1 THEN <<"L", "A", "K", "I", "-", "L", "A", "K", "I">>
    ELSE IF levenshtein(<<"w", "a", "n", "i", "t", "a">>, label_lower) <= 2 THEN <<"P", "E", "R", "E", "M", "P", "U", "A", "N">>
    ELSE IF levenshtein(<<"p", "e", "r", "e", "m", "p", "u", "a", "n">>, label_lower) <= 2 THEN <<"P", "E", "R", "E", "M", "P", "U", "A", "N">>
    ELSE None

RECURSIVE FirstGender(_)
FirstGender(value_words) ==
    IF Len(value_words) = 0 THEN <<None, 0>>
    ELSE IF GenderOf(Lower(value_words[1].label)) # None
         THEN <<GenderOf(Lower(value_words[1].label)), value_words[1].pos>>
    ELSE FirstGender(Tail(value_words))

\* xlocs = [val['x1'] ...]; value_words[np.argmin(xlocs)]
Leftmost(value_words) ==
    value_words[ArgMin(AsList([i \in 1..Len(value_words) |-> value_words[i].x1],
                              Len(value_words)))]

\* Line 178
WithinMaxX(value_words, max_x) == SelectSeq(value_words, LAMBDA val : val.x1 <= max_x)

\* What the field-specific policy yields: the value, self.max_x, and for
\* the properties the collected tokens, the tokens the value is built from
\* and the self.max_x the pekerjaan filter read
Resolved(ret, max_x, value_words, kept, thr) ==
    [ret |-> ret, max_x |-> max_x, values |-> PosOf(value_words), kept |-> kept,
     thr |-> thr]

\* Lines 137-138: nik publishes the right edge of its value tokens
NikValue(value_words) ==
    Resolved(GenericValue(value_words),
             SeqMax(AsList([i \in 1..Len(value_words) |-> value_words[i].x2],
                           Len(value_words))),
             value_words, PosOf(value_words), NoRead)

\* The kota policy ending in the generic rule of lines 215-216: None when
\* no value token was collected
KotaValueGeneric(field_keywords, value_words, max_x) ==
    Resolved(IF Len(JoinLabels(value_words)) = 0 THEN None
             ELSE (IF field_keywords = <<"k", "a", "b", "u", "p", "a", "t", "e", "n">> THEN <<"K", "A", "B", "U", "P", "A", "T", "E", "N", " ">>
                   ELSE <<"K", "O", "T", "A", " ">>) \o JoinLabels(value_words),
             max_x, value_words, PosOf(value_words), NoRead)

\* Lines 140-145
KotaValue(field_keywords, value_words, max_x) ==
    Resolved((IF field_keywords = <<"k", "a", "b", "u", "p", "a", "t", "e", "n">> THEN <<"K", "A", "B", "U", "P", "A", "T", "E", "N", " ">> ELSE <<"K", "O", "T", "A", " ">>)
                 \o JoinLabels(value_words),
             max_x, value_words, PosOf(value_words), NoRead)

\* Lines 215-216, on the tokens left after the policy's removals
JoinedValue(value_words, rest, max_x, thr) ==
    Resolved(GenericValue(rest), max_x, value_words, PosOf(rest), thr)

\* Lines 156-167
GenderValue(value_words, g, max_x) ==
    Resolved(g[1], max_x, value_words, IF g[2] = 0 THEN <<>> ELSE <<g[2]>>, NoRead)

\* Lines 169-171: the first token of at most three characters
ShortValue(value_words, vals, max_x) ==
    IF Len(vals) > 0
    THEN Resolved(vals[1].label, max_x, value_words, <<vals[1].pos>>, NoRead)
    ELSE Resolved(None, max_x, value_words, <<>>, NoRead)

\* Lines 173-178: the list comprehension reads self.max_x once per token
OccupationValue(value_words, no_kartu, max_x) ==
    JoinedValue(value_words, WithinMaxX(no_kartu, max_x), max_x,
                IF Len(no_kartu) > 0 THEN max_x ELSE NoRead)

\* The policy with the distances tested: 'WNI' only for a token within
\* distance 1 of 'wni' (if d and min(d) <= 1)
CitizenshipValueChecked(value_words, max_x) ==
    IF HasMatch(<<"w", "n", "i">>, 1, value_words)
    THEN Resolved(<<"W", "N", "I">>, max_x, value_words, <<>>, NoRead)
    ELSE IF Len(value_words) > 0
         THEN Resolved(Leftmost(value_words).label, max_x, value_words,
                       <<Leftmost(value_words).pos>>, NoRead)
    ELSE Resolved(None, max_x, value_words, <<>>, NoRead)

\* Lines 180-188
CitizenshipValue(value_words, max_x) ==
    IF Len(WordDistances(<<"w", "n", "i">>, value_words)) > 0
    THEN Resolved(<<"W", "N", "I">>, max_x, value_words, <<>>, NoRead)
    ELSE IF Len(value_words) > 0
         THEN Resolved(Leftmost(value_words).label, max_x, value_words,
                       <<Leftmost(value_words).pos>>, NoRead)
    ELSE Resolved(None, max_x, value_words, <<>>, NoRead)

\* Lines 193-198 and 206-212: the leftmost token, replaced by the canonical
\* text when it is within tol of the keyword
LeftmostValue(value_words, word, keyword, tol, canonical, max_x) ==
    Resolved(IF levenshtein(keyword, Lower(word.label)) <= tol
             THEN canonical ELSE word.label,
             max_x, value_words, <<word.pos>>, NoRead)

\* Lines 190-198
MaritalValue(value_words, max_x) ==
    IF Len(value_words) > 0
    THEN LeftmostValue(value_words, Leftmost(value_words), <<"b", "e", "l", "u", "m">>, 1,
                       <<"B", "E", "L", "U", "M", " ", "K", "A", "W", "I", "N">>, max_x)
    ELSE Resolved(None, max_x, value_words, <<>>, NoRead)

\* Lines 200-212
ValidityValue(value_words, rest, max_x) ==
    IF Len(rest) > 0
    THEN LeftmostValue(value_words, Leftmost(rest), <<"s", "e", "u", "m", "u", "r">>, 2,
                       <<"S", "E", "U", "M", "U", "R", " ", "H", "I", "D", "U", "P">>, max_x)
    ELSE Resolved(None, max_x, value_words, <<>>, NoRead)

\* Lines 137-216: the field-specific policy, applied to the collected tokens
ResolveField(field_name, field_keywords, value_words, max_x) ==
    IF field_name = "nik" /\ Len(value_words) > 0 THEN NikValue(value_words)
    ELSE IF field_name = "kota" THEN KotaValue(field_keywords, value_words, max_x)
    ELSE IF field_name = "ttl"
    THEN JoinedValue(value_words, PopTtlLabel(TtlLabels, value_words), max_x, NoRead)
    ELSE IF field_name = "jenis_kelamin"
    THEN GenderValue(value_words, FirstGender(value_words), max_x)
    ELSE IF field_name = "gol_darah"
    THEN ShortValue(value_words,
                    SelectSeq(value_words, LAMBDA val : Len(val.label) <= 3), max_x)
    ELSE IF field_name = "pekerjaan"
    THEN OccupationValue(value_words, PopClosest(<<"k", "a", "r", "t", "u">>, 2, value_words), max_x)
    ELSE IF field_name = "kewarganegaraan" THEN CitizenshipValue(value_words, max_x)
    ELSE IF field_name = "status_perkawinan" THEN MaritalValue(value_words, max_x)
    ELSE IF field_name = "berlaku_hingga"
    THEN ValidityValue(value_words, PopClosest(<<"h", "i", "n", "g", "g", "a">>, 2, value_words), max_x)
    ELSE JoinedValue(value_words, value_words, max_x, NoRead)

\* The outcome of a call that located its anchor
Located(r, matched, anchor, field_keywords) ==
    Outcome(r.ret, r.max_x, matched, anchor.pos, field_keywords, r.values, r.kept,
            r.thr)

\* Lines 112-216
FromAnchor(ls_word, anchor, field_name, field_keywords, max_x) ==
    Located(ResolveField(field_name, field_keywords, CollectValues(ls_word, anchor),
                         max_x),
            PosOf(ls_word), anchor, field_keywords)

RECURSIVE get_attribute_ktp(_, _, _, _, _)

\* Lines 106-112 with the test of line 106 off by one (>= typo_tolerance)
MatchAnchorOffByOne(ls_word, ls_dist, field_name, field_keywords, typo_tolerance, max_x) ==
    IF Len(ls_dist) = 0 THEN RaisedOutcome(max_x)
    ELSE IF SeqMin(ls_dist) >= typo_tolerance
    THEN IF field_name = "kota" /\ field_keywords # <<"k", "o", "t", "a">>
         THEN Retried(get_attribute_ktp(ls_word, field_name, <<"k", "o", "t", "a">>, 1, max_x))
         ELSE NotFound(max_x, PosOf(ls_word))
    ELSE FromAnchor(ls_word, ls_word[ArgMin(ls_dist)], field_name, field_keywords,
                    max_x)

\* Lines 106-112, on the distances of lines 95-104
MatchAnchor(ls_word, ls_dist, field_name, field_keywords, typo_tolerance, max_x) ==
    \* np.min of an empty list raises ValueError (line 106)
    IF Len(ls_dist) = 0 THEN RaisedOutcome(max_x)
    ELSE IF SeqMin(ls_dist) > typo_tolerance
    THEN IF field_name = "kota" /\ field_keywords # <<"k", "o", "t", "a">>
         THEN Retried(get_attribute_ktp(ls_word, field_name, <<"k", "o", "t", "a">>, 1, max_x))
         ELSE NotFound(max_x, PosOf(ls_word))
    ELSE FromAnchor(ls_word, ls_word[ArgMin(ls_dist)], field_name, field_keywords,
                    max_x)

\* Lines 95-104
LocateAnchor(ls_word, field_name, field_keywords, typo_tolerance, max_x) ==
    MatchAnchor(ls_word, LabelDistances(ls_word, field_keywords), field_name,
                field_keywords, typo_tolerance, max_x)

get_attribute_ktp(ls_word_arg, field_name, field_keywords, typo_tolerance, max_x) ==
    IF Len(ls_word_arg) = 0 THEN NotFound(max_x, <<>>)
    ELSE LocateAnchor(IF field_name = "nama"
                      THEN SelectSeq(ls_word_arg, NotJawaNusa)
                      ELSE ls_word_arg,
                      field_name, field_keywords, typo_tolerance, max_x)
----------------------------------------------------------------------------
(* KTPExtractor.normalize_occupation, ktp_extractor.py:244-268 *)

occupation_mapping == <<
    [key |-> <<"m", "e", "n", "g", "u", "r", "u", "s", " ", "r", "u", "m", "a", "h", " ", "t", "a", "n", "g", "g", "a">>, value |-> <<"M", "e", "n", "g", "u", "r", "u", "s", " ", "R", "u", "m", "a", "h", " ", "T", "a", "n", "g", "g", "a">>, tolerance |-> 6],
    [key |-> <<"b", "u", "r", "u", "h", " ", "h", "a", "r", "i", "a", "n", " ", "l", "e", "p", "a", "s">>, value |-> <<"B", "u", "r", "u", "h", " ", "H", "a", "r", "i", "a", "n", " ", "L", "e", "p", "a", "s">>, tolerance |-> 6],
    [key |-> <<"p", "e", "g", "a", "w", "a", "i", " ", "n", "e", "g", "e", "r", "i", " ", "s", "i", "p", "i", "l">>, value |-> <<"P", "e", "g", "a", "w", "a", "i", " ", "N", "e", "g", "e", "r", "i", " ", "S", "i", "p", "i", "l">>, tolerance |-> 5],
    [key |-> <<"p", "e", "l", "a", "j", "a", "r", "/", "m", "a", "h", "a", "s", "i", "s", "w", "a">>, value |-> <<"P", "e", "l", "a", "j", "a", "r", "/", "M", "a", "h", "a", "s", "i", "s", "w", "a">>, tolerance |-> 4],
    [key |-> <<"p", "e", "l", "a", "j", "a", "r", "/", "m", "h", "s">>, value |-> <<"P", "e", "l", "a", "j", "a", "r", "/", "M", "a", "h", "a", "s", "i", "s", "w", "a">>, tolerance |-> 3],
    [key |-> <<"b", "e", "l", "u", "m", "/", "t", "i", "d", "a", "k", " ", "b", "e", "k", "e", "r", "j", "a">>, value |-> <<"B", "e", "l", "u", "m", "/", "T", "i", "d", "a", "k", " ", "B", "e", "k", "e", "r", "j", "a">>, tolerance |-> 5],
    [key |-> <<"k", "a", "r", "y", "a", "w", "a", "n", " ", "s", "w", "a", "s", "t", "a">>, value |-> <<"K", "a", "r", "y", "a", "w", "a", "n", " ", "S", "w", "a", "s", "t", "a">>, tolerance |-> 4],
    [key |-> <<"p", "e", "g", "a", "w", "a", "i", " ", "n", "e", "g", "e", "r", "i">>, value |-> <<"P", "e", "g", "a", "w", "a", "i", " ", "N", "e", "g", "e", "r", "i">>, tolerance |-> 4],
    [key |-> <<"w", "i", "r", "a", "s", "w", "a", "s", "t", "a">>, value |-> <<"W", "i", "r", "a", "s", "w", "a", "s", "t", "a">>, tolerance |-> 3],
    [key |-> <<"p", "e", "g", " ", "n", "e", "g", "e", "r", "i">>, value |-> <<"P", "e", "g", "a", "w", "a", "i", " ", "N", "e", "g", "e", "r", "i">>, tolerance |-> 3],
    [key |-> <<"p", "e", "g", " ", "s", "w", "a", "s", "t", "a">>, value |-> <<"P", "e", "g", "a", "w", "a", "i", " ", "S", "w", "a", "s", "t", "a">>, tolerance |-> 3] >>

RECURSIVE FirstOccupation(_, _, _)
FirstOccupation(occ, occ_lower, i) ==
    IF i > Len(occupation_mapping) THEN occ
    ELSE IF levenshtein(occupation_mapping[i].key, occ_lower) <= occupation_mapping[i].tolerance
         THEN occupation_mapping[i].value
    ELSE FirstOccupation(occ, occ_lower, i + 1)

normalize_occupation(occ) ==
    IF ~Truthy(occ) THEN occ ELSE FirstOccupation(occ, Lower(occ), 1)

----------------------------------------------------------------------------
(* KTPExtractor._process_extracted_data, ktp_extractor.py:295-365 *)

\* KTPData(): every field None (models.py:5-22)
EmptyKTPData ==
    [nik |-> None, nama |-> None, tempat_lahir |-> None, tanggal_lahir |-> NoDate,
     jenis_kelamin |-> None, golongan_darah |-> None, alamat |-> None,
     rt_rw |-> None, kelurahan_desa |-> None, kecamatan |-> None, agama |-> None,
     status_perkawinan |-> None, pekerjaan |-> None, kewarganegaraan |-> None,
     berlaku_hingga |-> None, provinsi |-> None, kota |-> None]

\* A match of the pattern [/\\]\s*[TtIi]gl\s* at the head of s: its length,
\* 0 when there is none
RECURSIVE SpaceRun(_)
SpaceRun(s) == IF Len(s) > 0 /\ IsSpace(s[1]) THEN 1 + SpaceRun(Tail(s)) ELSE 0

TglMatchLen(s) ==
    IF Len(s) = 0 \/ s[1] \notin {"/", "\\"} THEN 0
    ELSE LET a == SpaceRun(Tail(s))
             rest == SubSeq(s, a + 2, Len(s))
         IN IF /\ Len(rest) >= 3
               /\ rest[1] \in {"T", "t", "I", "i"}
               /\ rest[2] = "g"
               /\ rest[3] = "l"
            THEN 1 + a + 3 + SpaceRun(SubSeq(rest, 4, Len(rest)))
            ELSE 0

RECURSIVE SubTgl(_)
\* re.sub(r'[/\\]\s*[TtIi]gl\s*', '', s)
SubTgl(s) ==
    IF Len(s) = 0 THEN <<>>
    ELSE IF TglMatchLen(s) > 0 THEN SubTgl(SubSeq(s, TglMatchLen(s) + 1, Len(s)))
    ELSE <<s[1]>> \o SubTgl(Tail(s))

\* Line 330: ''.join([i for i in s if i.isalpha() or i.isspace()])
IsAlphaOrSpace(c) == IsAlpha(c) \/ IsSpace(c)

LettersAndSpacesOf(s) == SelectSeq(s, IsAlphaOrSpace)

\* The clean-up without the upper() of line 331
CleanPlaceKeepCase(place) ==
    IF ~Truthy(place) THEN place
    ELSE Strip(LettersAndSpacesOf(SubTgl(place)))

\* Lines 326-331
CleanPlace(place) ==
    IF ~Truthy(place) THEN place
    ELSE Upper(Strip(LettersAndSpacesOf(SubTgl(place))))

\* Lines 313-323: raw_result['ttl'].split(', ')
TtlParts(ttl) == Split(ttl, <<",", " ">>)

\* data.tempat_lahir before the clean-up of lines 326-331
TtlPlace(ttl) == IF ~Truthy(ttl) THEN None ELSE TtlParts(ttl)[1]

\* The text handed to extract_date: the second part when there is one, the
\* whole ttl otherwise
TtlDateText(ttl, ttls) == IF Len(ttls) >= 2 THEN ttls[2] ELSE ttl

\* data.tanggal_lahir
TtlDate(ttl) ==
    IF ~Truthy(ttl) THEN NoDate ELSE extract_date(TtlDateText(ttl, TtlParts(ttl)))

\* Lines 337-345
StatusOf(ms_lower) ==
    IF \/ levenshtein(<<"b", "e", "l", "u", "m", " ", "k", "a", "w", "i", "n">>, ms_lower) <= 2
       \/ levenshtein(<<"t", "i", "d", "a", "k", " ", "k", "a", "w", "i", "n">>, ms_lower) <= 2
    THEN <<"B", "E", "L", "U", "M", " ", "K", "A", "W", "I", "N">>
    ELSE IF levenshtein(<<"k", "a", "w", "i", "n">>, ms_lower) <= 1 THEN <<"K", "A", "W", "I", "N">>
    ELSE IF \E status \in {<<"j", "a", "n", "d", "a">>, <<"d", "u", "d", "a">>, <<"c", "e", "r", "a", "i">>} :
                levenshtein(status, ms_lower) <= 2
    THEN <<"C", "E", "R", "A", "I">>
    ELSE None

\* The raw value stored without the mapping of lines 337-345
RawStatus(marital_status) == marital_status

MaritalStatus(marital_status) ==
    IF ~Truthy(marital_status) THEN None ELSE StatusOf(Lower(marital_status))

\* Lines 351-353
BloodTypeOf(blood_type) ==
    IF Lower(blood_type) \in {<<"a">>, <<"b">>, <<"a", "b">>, <<"o">>}
    THEN Upper(blood_type) ELSE None

BloodType(gol_darah) ==
    IF ~Truthy(gol_darah) THEN None
    ELSE BloodTypeOf(Strip(NonDigitsOf(gol_darah)))

\* Lines 307-310
Gender(jenis_kelamin) ==
    IF jenis_kelamin = <<"L", "A", "K", "I", "-", "L", "A", "K", "I">> THEN <<"L", "A", "K", "I", "-", "L", "A", "K", "I">>
    ELSE IF jenis_kelamin \in {<<"W", "A", "N", "I", "T", "A">>, <<"P", "E", "R", "E", "M", "P", "U", "A", "N">>} THEN <<"P", "E", "R", "E", "M", "P", "U", "A", "N">>
    ELSE None

_process_extracted_data(raw_result) ==
       [nik |-> IF Truthy(raw_result["nik"])
                THEN DigitsOf(raw_result["nik"]) ELSE None,
        nama |-> IF Truthy(raw_result["nama"])
                 THEN Strip(RemoveAll(NonDigitsOf(raw_result["nama"]), <<"-">>))
                 ELSE None,
        jenis_kelamin |-> Gender(raw_result["jenis_kelamin"]),
        tempat_lahir |-> CleanPlace(TtlPlace(raw_result["ttl"])),
        tanggal_lahir |-> TtlDate(raw_result["ttl"]),
        kewarganegaraan |-> IF raw_result["kewarganegaraan"] = <<"W", "N", "I">>
                            THEN <<"I", "N", "D", "O", "N", "E", "S", "I", "A">> ELSE raw_result["kewarganegaraan"],
        status_perkawinan |-> MaritalStatus(raw_result["status_perkawinan"]),
        pekerjaan |-> normalize_occupation(raw_result["pekerjaan"]),
        golongan_darah |-> BloodType(raw_result["gol_darah"]),
        provinsi |-> raw_result["provinsi"],
        kota |-> raw_result["kota"],
        alamat |-> raw_result["alamat"],
        rt_rw |-> raw_result["rt_rw"],
        kelurahan_desa |-> raw_result["kel_desa"],
        kecamatan |-> raw_result["kecamatan"],
        agama |-> raw_result["agama"],
        berlaku_hingga |-> raw_result["berlaku_hingga"]]

----------------------------------------------------------------------------
(* KTPExtractor.extract_ktp_data, ktp_extractor.py:270-293 *)

\* Lines 289-290
StripColons(field_value) ==
    IF Truthy(field_value)
    THEN RemoveAll(RemoveAll(field_value, <<":", " ">>), <<":">>)
    ELSE field_value

\* extract_ktp_data without the assignment of line 277: self.max_x keeps
\* the value the previous call left
KeepMaxX(max_x) == max_x

\* Line 277
ResetMaxX(max_x) == MaxXSentinel

\* One call of the loop of lines 282-291, for fields_config[i]
ResolveStep(ls_word, i, max_x) ==
    get_attribute_ktp(ls_word, fields_config[i].field_name, fields_config[i].keywords,
                      fields_config[i].typo_tolerance, max_x)

\* The raw result map before any field is resolved
EmptyRaw == [f \in FieldNames |-> None]

\* The per-field outcomes before any field is resolved
NoSteps == [f \in FieldNames |-> NotFound(MaxXSentinel, <<>>)]

\* The loop's state: [raised, max_x, raw_result, steps]
LoopStart(max_x) ==
    [raised |-> FALSE, max_x |-> max_x, raw_result |-> EmptyRaw, steps |-> NoSteps]

\* Lines 289-291: the outcome of the call for field name is stored
Recorded(acc, name, out) ==
    [raised |-> out.raised,
     max_x |-> out.max_x,
     raw_result |-> IF out.raised THEN acc.raw_result
                    ELSE [acc.raw_result EXCEPT ![name] = StripColons(out.ret)],
     steps |-> [acc.steps EXCEPT ![name] = out]]

\* One iteration of the loop of lines 282-291
LoopStep(ls_word, i, acc) ==
    Recorded(acc, fields_config[i].field_name, ResolveStep(ls_word, i, acc.max_x))

RECURSIVE ResolveFrom(_, _, _)
\* The loop from field i on; an exception ends it
ResolveFrom(ls_word, i, acc) ==
    IF i > NumFields \/ acc.raised THEN acc
    ELSE ResolveFrom(ls_word, i + 1, LoopStep(ls_word, i, acc))

\* [raised, data, max_x, steps]: the record returned (data), or the exception
\* that left the call (raised), and self.max_x when the call ends
Returned(data, max_x) ==
    [raised |-> FALSE, data |-> data, max_x |-> max_x, steps |-> NoSteps]

\* Line 293
Processed(r) ==
    [raised |-> r.raised,
     data |-> IF r.raised THEN EmptyKTPData ELSE _process_extracted_data(r.raw_result),
     max_x |-> r.max_x,
     steps |-> r.steps]

\* Lines 273-293
ExtractFrom(ls_word, max_x) ==
    IF Len(ls_word) = 0 THEN Returned(EmptyKTPData, max_x)
    ELSE Processed(ResolveFrom(ls_word, 1, LoopStart(ResetMaxX(max_x))))

extract_ktp_data(text_response, max_x) ==
    IF ConvertRaises(text_response)
    THEN [raised |-> TRUE, data |-> EmptyKTPData, max_x |-> max_x, steps |-> NoSteps]
    ELSE ExtractFrom(convert_format(text_response), max_x)
----------------------------------------------------------------------------
(* PaddleOCRService._convert_to_gcv_format, paddle_ocr_service.py:33-82     *)
(*                                                                         *)
(* A recognised line is [bbox |-> four <<x, y>> points, text |-> string];  *)
(* NoLine is a None entry of the result.                                   *)

NoLine == [none |-> TRUE]

Vertex(p) == [x |-> p[1], y |-> p[2]]

\* Lines 52-65
LineAnnotation(line) ==
    [description |-> line.text,
     boundingPoly |-> [vertices |-> << Vertex(line.bbox[1]), Vertex(line.bbox[2]),
                                       Vertex(line.bbox[3]), Vertex(line.bbox[4]) >>]]

RECURSIVE LineAnnotations(_)
LineAnnotations(paddle_result) ==
    IF Len(paddle_result) = 0 THEN <<>>
    ELSE IF paddle_result[1] = NoLine THEN LineAnnotations(Tail(paddle_result))
    ELSE <<LineAnnotation(paddle_result[1])>> \o LineAnnotations(Tail(paddle_result))

RECURSIVE FullText(_)
\* Line 49: full_text += text + " "
FullText(paddle_result) ==
    IF Len(paddle_result) = 0 THEN <<>>
    ELSE IF paddle_result[1] = NoLine THEN FullText(Tail(paddle_result))
    ELSE paddle_result[1].text \o <<" ">> \o FullText(Tail(paddle_result))

\* Lines 68-80: the whole-image annotation put at position 0
FullTextAnnotation(paddle_result) ==
    [description |-> Strip(FullText(paddle_result)),
     boundingPoly |-> [vertices |-> << [x |-> 0, y |-> 0], [x |-> 1000, y |-> 0],
                                       [x |-> 1000, y |-> 1000], [x |-> 0, y |-> 1000] >>]]

_convert_to_gcv_format(paddle_result) ==
    LET text_annotations == LineAnnotations(paddle_result)
    IN IF Len(text_annotations) > 0
       THEN [textAnnotations |-> <<FullTextAnnotation(paddle_result)>> \o text_annotations]
       ELSE [textAnnotations |-> <<>>]
----------------------------------------------------------------------------
(* SmartOCRService, smart_ocr_service.py                                   *)
(*                                                                         *)
(* What a provider's call did: it raised, or it returned the dict value.   *)

\* The value slot of a call that returned nothing
NoValue == [novalue |-> TRUE]

NoReply == [called |-> FALSE, raised |-> FALSE, value |-> NoValue]

Replied(value) == [called |-> TRUE, raised |-> FALSE, value |-> value]

Failed == [called |-> TRUE, raised |-> TRUE, value |-> NoValue]

\* Line 124
MinChars == 10

RECURSIVE TotalText(_)
\* Lines 118-121: the descriptions of the annotations that have one, joined
\* without separator
TotalText(annotations) ==
    IF Len(annotations) = 0 THEN <<>>
    ELSE (IF HasKey(annotations[1], "description") THEN annotations[1].description
          ELSE <<>>) \o TotalText(Tail(annotations))

\* Accepts every result that has an annotation, whatever its text
ValidateNonEmpty(res) ==
    /\ HasKey(res, "textAnnotations")
    /\ Len(res.textAnnotations) > 0

\* Lines 106-124
_validate_ocr_result(res) ==
    IF DOMAIN res = {} \/ ~HasKey(res, "textAnnotations") THEN FALSE
    ELSE IF Len(res.textAnnotations) = 0 THEN FALSE
    ELSE Len(Strip(TotalText(res.textAnnotations))) >= MinChars

\* Lines 39-52 and 76-88: Google's result is returned when its call did not
\* raise and the result validates
GoogleAccepted(reply) == ~reply.raised /\ _validate_ocr_result(reply.value)

\* Lines 55-68 and 91-104: what the call hands to its caller after PaddleOCR
PaddleOutcome(reply) ==
    IF reply.raised THEN Failed
    ELSE IF _validate_ocr_result(reply.value) THEN Replied(reply.value)
    ELSE Replied([textAnnotations |-> <<>>])
----------------------------------------------------------------------------
(* Inputs: the OCR results the specifications draw from *)

\* An axis-aligned quadrilateral, corners clockwise from the top left
Quad(x, y, w, h) == << <<x, y>>, <<x + w, y>>, <<x + w, y + h>>, <<x, y + h>> >>

\* A Google Vision annotation (ocr_service.py:49-56)
Annotation(text, bbox) ==
    [description |-> text,
     boundingPoly |-> [vertices |-> << Vertex(bbox[1]), Vertex(bbox[2]),
                                       Vertex(bbox[3]), Vertex(bbox[4]) >>]]

BoxH == 20

SecondRow == 400

\* The annotations of one card, in provider order: labels and values of
\* several fields on the card's first row (y = 0) and on a row out of its
\* band (y = SecondRow), and among them entries convert_format skips and one
\* it fails on.
Card ==
    << \* the JSON form omits zero coordinates
       [description |-> <<"N", "I", "K">>,
        boundingPoly |-> [vertices |-> << <<>>, [x |-> 80], [x |-> 80, y |-> BoxH],
                                          [y |-> BoxH] >>]],
       Annotation(<<"3", "1", "7", "1">>, Quad(200, 0, 100, BoxH)),
       Annotation(<<"J", "A", "W", "A">>, Quad(200, 0, 80, BoxH)),
       Annotation(<<"K", "e", "l", "a", "m", "i", "n">>, Quad(0, 0, 80, BoxH)),
       Annotation(<<"L", "A", "K", "I", "-", "L", "A", "K", "I">>, Quad(200, 0, 80, BoxH)),
       \* no boundingPoly
       [description |-> <<"N", "I", "K">>],
       Annotation(<<"P", "e", "k", "e", "r", "j", "a", "a", "n">>, Quad(0, SecondRow, 80, BoxH)),
       Annotation(<<"G", "U", "R", "U">>, Quad(400, SecondRow, 80, BoxH)),
       \* a boundingPoly without vertices
       [description |-> <<"N", "I", "K">>, boundingPoly |-> [normalizedVertices |-> <<>>]],
       Annotation(<<"P", "e", "r", "k", "a", "w", "i", "n", "a", "n">>, Quad(0, SecondRow, 80, BoxH)),
       Annotation(<<"K", "A", "W", "I", "N">>, Quad(200, SecondRow, 80, BoxH)),
       \* three vertices, and no description
       [boundingPoly |-> [vertices |-> << [x |-> 0, y |-> 0], [x |-> 80, y |-> 0],
                                          [x |-> 80, y |-> BoxH] >>]],
       Annotation(<<"D", "a", "r", "a", "h">>, Quad(0, SecondRow, 80, BoxH)),
       Annotation(<<"A", "B">>, Quad(200, SecondRow, 40, BoxH)),
       \* four vertices, and no description
       [boundingPoly |-> [vertices |-> << [x |-> 0, y |-> 0], [x |-> 80, y |-> 0],
                                          [x |-> 80, y |-> BoxH], [x |-> 0, y |-> BoxH] >>]],
       Annotation(<<"J", "A", "N", "D", "A">>, Quad(200, SecondRow, 80, BoxH)) >>

MaxTokens == 2

\* What OCRService returns: a response without annotations, or up to
\* MaxTokens of the card's annotations
GoogleResponses ==
    {[responses |-> <<>>]}
        \cup {[textAnnotations |-> a] : a \in SubSeqsUpTo(Card, MaxTokens)}

LinePool ==
    { NoLine,
      [bbox |-> Quad(0, 0, 80, BoxH), text |-> <<"N", "I", "K">>],
      [bbox |-> Quad(200, 0, 100, BoxH), text |-> <<"3", "1", "7", "1">>] }

MaxLines == 2

\* What PaddleOCR hands to _convert_to_gcv_format
PaddleResults == SeqsUpTo(LinePool, MaxLines)
----------------------------------------------------------------------------
(* Values of the variables a specification does not use *)

NoDist == 0 - 1

Pending == <<-3, -3, -3>>

NoResponse == [responses |-> <<>>]

\* The outcome of a call together with self.max_x as the call found it
Entered(entry, r) ==
    [raised |-> r.raised, data |-> r.data, max_x |-> r.max_x, steps |-> r.steps,
     entry |-> entry]

NoResult == Entered(MaxXSentinel, Returned(EmptyKTPData, MaxXSentinel))

LevIdle == source = <<>> /\ target = <<>> /\ dist = NoDist

DateIdle == date_string = <<>> /\ date_result = Pending

ReqIdle == pc = "idle" /\ provider = "none" /\ ocr_result = NoResponse /\ result = NoResult

CallsIdle == calls = <<>>

NoOccupation == <<"<pending>">>

NoRecord == [tempat_lahir |-> NoOccupation, tanggal_lahir |-> Pending]

NormIdle ==
    /\ occupation = None /\ normalized = NoOccupation
    /\ raw_ttl = None /\ ttl_record = NoRecord

\* No call of the service is under way
CallIdle ==
    /\ smart_pc = "idle" /\ called_method = "none" /\ invoked = <<>>
    /\ google_reply = NoReply /\ paddle_reply = NoReply /\ returned = NoReply

SmartIdle == use_google = FALSE /\ google_ocr = "None" /\ CallIdle

----------------------------------------------------------------------------
(* Specification Spec: the /extract-ktp handler (main.py:38-111) serving   *)
(* requests one after another with the module-level KTPExtractor.          *)

Init ==
    /\ self_max_x = MaxXSentinel                   \* KTPExtractor.__init__, line 51
    /\ ReqIdle /\ LevIdle /\ DateIdle /\ CallsIdle /\ NormIdle /\ SmartIdle

\* main.py:81, the text came from Google Vision (OCRService)
OcrGoogle ==
    /\ pc = "idle"
    /\ \E r \in GoogleResponses : ocr_result' = r
    /\ provider' = "google"
    /\ pc' = "extract"
    /\ UNCHANGED <<self_max_x, result, levVars, dateVars, calls, normVars, smartVars>>

\* main.py:81, the text came from PaddleOCRService
OcrPaddle ==
    /\ pc = "idle"
    /\ \E p \in PaddleResults : ocr_result' = _convert_to_gcv_format(p)
    /\ provider' = "paddle"
    /\ pc' = "extract"
    /\ UNCHANGED <<self_max_x, result, levVars, dateVars, calls, normVars, smartVars>>

\* main.py:84
ExtractKtp ==
    /\ pc = "extract"
    /\ result' = Entered(self_max_x, extract_ktp_data(ocr_result, self_max_x))
    /\ self_max_x' = result'.max_x
    /\ pc' = "respond"
    /\ UNCHANGED <<provider, ocr_result, levVars, dateVars, calls, normVars, smartVars>>

\* main.py:86-111: the response is sent and the request's data dropped
Respond ==
    /\ pc = "respond"
    /\ pc' = "idle"
    /\ provider' = "none"
    /\ ocr_result' = NoResponse
    /\ result' = NoResult
    /\ UNCHANGED <<self_max_x, levVars, dateVars, calls, normVars, smartVars>>

Next == OcrGoogle \/ OcrPaddle \/ ExtractKtp \/ Respond

Spec == Init /\ [][Next]_vars

----------------------------------------------------------------------------
(* Specification SpecLev: levenshtein applied to every pair of strings     *)
(* over LevAlphabet of length at most MaxStrLen.                           *)

MaxStrLen == 5

LevAlphabet == {"a", "b", "c"}

LevStrings == SeqsUpTo(LevAlphabet, MaxStrLen)

InitLev ==
    /\ source \in LevStrings
    /\ target \in LevStrings
    /\ dist = NoDist
    /\ self_max_x = MaxXSentinel
    /\ ReqIdle /\ DateIdle /\ CallsIdle /\ NormIdle /\ SmartIdle

CallLevenshtein ==
    /\ dist = NoDist
    /\ dist' = levenshtein(source, target)
    /\ UNCHANGED <<source, target, dateVars, self_max_x, reqVars, calls, normVars, smartVars>>

NextLev == CallLevenshtein

SpecLev == InitLev /\ [][NextLev]_vars


----------------------------------------------------------------------------
(* Specification SpecLevSelf: levenshtein applied to a string and itself,  *)
(* for every string over LevAlphabet of length at most MaxSelfLen.         *)

MaxSelfLen == 7

InitLevSelf ==
    /\ source \in SeqsUpTo(LevAlphabet, MaxSelfLen)
    /\ target = source
    /\ dist = NoDist
    /\ self_max_x = MaxXSentinel
    /\ ReqIdle /\ DateIdle /\ CallsIdle /\ NormIdle /\ SmartIdle

NextLevSelf == CallLevenshtein

SpecLevSelf == InitLevSelf /\ [][NextLevSelf]_vars

----------------------------------------------------------------------------
(* Specification SpecDate: extract_date applied to strings made of a day,  *)
(* a month and a year, joined by a separator and surrounded by up to       *)
(* MaxPad other characters.                                                *)

DayTexts == { <<"1">>, <<"0", "9">>, <<"2", "9">>, <<"3", "0">>, <<"3", "1">>, <<"3", "2">>, <<"0", "0">> }

MonthTexts == { <<"2">>, <<"0", "2">>, <<"0", "4">>, <<"1", "2">>, <<"1", "3">>, <<"0", "0">> }

YearTexts == { <<"1", "9", "0", "9">>, <<"1", "9", "1", "0">>, <<"2", "0", "0", "0">>, <<"2", "0", "0", "1">>, <<"2", "1", "0", "0">>, <<"2", "1", "0", "1">>, <<"0", "0", "0", "0">> }

Separators == { <<"-">>, <<"/">>, <<>> }

MaxPad == 1

Pads == SeqsUpTo({"x", "1"}, MaxPad)

DateStrings ==
    {<<>>}
        \cup Pads
        \cup {pre \o d \o sep \o m \o sep \o y \o post :
                  pre \in Pads, d \in DayTexts, sep \in Separators,
                  m \in MonthTexts, y \in YearTexts, post \in Pads}

InitDate ==
    /\ date_string \in DateStrings
    /\ date_result = Pending
    /\ self_max_x = MaxXSentinel
    /\ ReqIdle /\ LevIdle /\ CallsIdle /\ NormIdle /\ SmartIdle

CallExtractDate ==
    /\ date_result = Pending
    /\ date_result' = extract_date(date_string)
    /\ UNCHANGED <<date_string, levVars, self_max_x, reqVars, calls, normVars, smartVars>>

NextDate == CallExtractDate

SpecDate == InitDate /\ [][NextDate]_vars

----------------------------------------------------------------------------
(* Specification SpecOcc: normalize_occupation applied to the table's keys, *)
(* to the keys with one character missing, and to other raw occupations.   *)

TableKeys == {occupation_mapping[i].key : i \in 1..Len(occupation_mapping)}

\* The texts obtained from s by dropping one of its characters
OneDropped(s) == {RemoveAt(s, p) : p \in 1..Len(s)}

Occupations ==
    { None, <<>>, <<"P", "e", "g", "a", "w", "a", "i", " ", "N", "e", "g", "e", "r", "i", " ", "S", "i", "p", "i", "l">>, <<"p", "e", "g", " ", "n", "e", "g", "e", "r", "i">>, <<"P", "e", "g", "a", "w", "a", "i", " ", "N", "e", "g", "e", "r", "i", " ", "S">>,
      <<"P", "E", "G", " ", "S", "W", "A", "S", "T", "A">>, <<"G", "U", "R", "U">>, <<"P", "e", "t", "a", "n", "i", "/", "P", "e", "k", "e", "b", "u", "n">>, <<"p", "e", "g", "a", "i", " ", "n", "e", "g", "n", "n", "e", "r", "i">>,
      <<"k", "a", "r", "y", "w", "a", "n", " ", "b", ".", "s", "w", "a", "s", "t">>, <<"P", "e", "l", "a", "j", "a", "r", "/", "M", "h", "s", "i", "s", "w", "a">> }
        \cup TableKeys
        \cup UNION {OneDropped(k) : k \in TableKeys}

InitOcc ==
    /\ occupation \in Occupations
    /\ normalized = NoOccupation
    /\ raw_ttl = None /\ ttl_record = NoRecord
    /\ self_max_x = MaxXSentinel
    /\ ReqIdle /\ LevIdle /\ DateIdle /\ CallsIdle /\ SmartIdle

\* ktp_extractor.py:348
CallNormalizeOccupation ==
    /\ normalized = NoOccupation
    /\ normalized' = normalize_occupation(occupation)
    /\ UNCHANGED <<occupation, raw_ttl, ttl_record, levVars, dateVars, self_max_x,
                   reqVars, calls, smartVars>>

NextOcc == CallNormalizeOccupation

SpecOcc == InitOcc /\ [][NextOcc]_vars

----------------------------------------------------------------------------
(* Specification SpecNik: one extraction of a card row holding a NIK label *)
(* followed by NikTokens digit-bearing tokens.  The tokens are single      *)
(* digits, except one that is drawn from NikVariants; an optional further  *)
(* entry is off the row or unusable.                                       *)

NikTokens == 16

NikLabels == { <<"N", "I", "K">>, <<"N", "I", "K", ":">>, <<"N", "l", "K">> }

NikVariants == { <<"7">>, <<"g", "o", "l", "1">>, <<"d", "a", "r", "4", "h">>, <<"g", "o", "1", ".">>, <<"A", "-", "7">>, <<"7", ":">> }

NikVariantAt == {1, 8, NikTokens}

\* The digit printed at position k of the row
NikDigit(k) == <<CHOOSE c \in Digits : DigitVal(c) = k % 10>>

NikBox(k) == Quad(100 + 50 * (k - 1), 0, 40, BoxH)

NikExtras ==
    { <<>>,
      <<Annotation(<<"9", "9">>, Quad(200, SecondRow, 40, BoxH))>>,
      <<[description |-> <<"5">>]>> }

NikRow(p, v) ==
    AsList([k \in 1..NikTokens |->
               Annotation(IF k = p THEN v ELSE NikDigit(k), NikBox(k))], NikTokens)

NikResponses ==
    {[textAnnotations |->
          <<Annotation(label, Quad(0, 0, 80, BoxH))>> \o NikRow(p, v) \o extra] :
        label \in NikLabels, p \in NikVariantAt, v \in NikVariants, extra \in NikExtras}

InitNik ==
    /\ self_max_x = MaxXSentinel
    /\ pc = "extract"
    /\ provider = "google"
    /\ ocr_result \in NikResponses
    /\ result = NoResult
    /\ LevIdle /\ DateIdle /\ CallsIdle /\ NormIdle /\ SmartIdle

NextNik == ExtractKtp \/ Respond

SpecNik == InitNik /\ [][NextNik]_vars

----------------------------------------------------------------------------
(* Specification SpecTtl: _process_extracted_data applied to a raw result  *)
(* whose ttl is a place, a comma and a space, and a day-month-year text;   *)
(* and to ttl texts of other forms.                                        *)

Places ==
    { <<"J", "A", "K", "A", "R", "T", "A">>, <<" ", "j", "a", "k", "a", "r", "t", "a", " ">>, <<"K", "o", "t", "a", " ", "B", "o", "g", "o", "r">>, <<>>, <<" ">>, <<"T", "g", "l">>,
      <<"T", "e", "m", "p", "a", "t", "T", "g", "l", " ", "L", "a", "h", "i", "r", " ", "S", "o", "l", "o">>, <<"I">> }

TtlDays == { <<"1">>, <<"1", "7">>, <<"2", "9">>, <<"3", "0">>, <<"3", "1">>, <<"3", "2">> }

TtlMonths == { <<"2">>, <<"0", "2">>, <<"0", "8">>, <<"1", "1">>, <<"1", "3">> }

TtlYears == { <<"1", "9", "0", "9">>, <<"1", "9", "1", "0">>, <<"1", "9", "9", "5">>, <<"2", "0", "0", "0">>, <<"2", "1", "0", "0">>, <<"2", "1", "0", "1">> }

\* The text 'P, D-M-Y'
PlaceCommaDate(place, d, m, y) ==
    place \o <<",", " ">> \o d \o <<"-">> \o m \o <<"-">> \o y

RawTtls ==
    { None, <<>>, <<"J", "A", "K", "A", "R", "T", "A", " ", "1", "7", "-", "0", "8", "-", "1", "9", "9", "5">>, <<"J", "A", "K", "A", "R", "T", "A", ",", "1", "7", "-", "0", "8", "-", "1", "9", "9", "5">>,
      <<"J", "A", "K", "A", "R", "T", "A", ",", " ", "1", "7", "0", "8", "1", "9", "9", "5">>, <<"J", "A", "K", "A", "R", "T", "A", "/", "T", "g", "l", ",", " ", "1", "7", "-", "0", "8", "-", "1", "9", "9", "5">>, <<"J", "A", "K", "A", "R", "T", "A", ",", " ", "1", "7", "-", "0", "8", "-", "1", "9", "9", "5", ",", " ", "X">>,
      <<"B", "O", "G", "O", "R", " ", "3", ",", " ", "1", "-", "2", "-", "2", "0", "0", "0">> }
        \cup {PlaceCommaDate(place, d, m, y) :
                  place \in Places, d \in TtlDays, m \in TtlMonths, y \in TtlYears}

InitTtl ==
    /\ raw_ttl \in RawTtls
    /\ ttl_record = NoRecord
    /\ occupation = None /\ normalized = NoOccupation
    /\ self_max_x = MaxXSentinel
    /\ ReqIdle /\ LevIdle /\ DateIdle /\ CallsIdle /\ SmartIdle

\* The birth place and date of the record
BirthOf(data) ==
    [tempat_lahir |-> data.tempat_lahir, tanggal_lahir |-> data.tanggal_lahir]

\* ktp_extractor.py:293, on a raw result with the ttl alone
CallProcessExtractedData ==
    /\ ttl_record = NoRecord
    /\ ttl_record' = BirthOf(_process_extracted_data([EmptyRaw EXCEPT !["ttl"] = raw_ttl]))
    /\ UNCHANGED <<raw_ttl, occupation, normalized, levVars, dateVars, self_max_x,
                   reqVars, calls, smartVars>>

NextTtl == CallProcessExtractedData

SpecTtl == InitTtl /\ [][NextTtl]_vars

----------------------------------------------------------------------------
(* Specification SpecConc: NumCalls calls of extract_ktp_data on the       *)
(* module-level instance (main.py:28), interleaved between the calls of    *)
(* get_attribute_ktp.  Every call works on its own ls_word and raw_result; *)
(* self.max_x is the instance's.                                           *)
(*                                                                         *)
(* A call is [at, ls_word, i, own, thr]:                                   *)
(*   at       "idle", "loop" (lines 282-291) or "done"                     *)
(*   i        the index in fields_config of the next field                 *)
(* and, for the properties only,                                           *)
(*   own      what this call's nik step wrote to self.max_x, the sentinel  *)
(*            when it wrote nothing                                        *)
(*   thr      the self.max_x this call's pekerjaan filter read, NoRead     *)
(*            when it read none                                            *)

NumCalls == 2

Callers == 1..NumCalls

ConcInputs ==
    { [textAnnotations |-> <<Card[1], Card[2]>>],
      [textAnnotations |-> <<Card[7], Card[8]>>],
      [textAnnotations |-> <<Card[1], Card[2], Card[7], Card[8]>>],
      [textAnnotations |-> <<>>] }

IdleCall == [at |-> "idle", ls_word |-> <<>>, i |-> 0, own |-> MaxXSentinel,
             thr |-> NoRead]

InitConc ==
    /\ self_max_x = MaxXSentinel
    /\ calls = [c \in Callers |-> IdleCall]
    /\ ReqIdle /\ LevIdle /\ DateIdle /\ NormIdle /\ SmartIdle

\* Lines 137-138: the nik step assigned self.max_x
NikWrote(out) == out.anchor # 0 /\ Len(out.values) > 0

\* The call after get_attribute_ktp returned out for fields_config[i]
AfterStep(call, out) ==
    [at |-> IF out.raised THEN "done" ELSE "loop",
     ls_word |-> call.ls_word,
     i |-> call.i + 1,
     own |-> IF fields_config[call.i].field_name = "nik" /\ NikWrote(out)
             THEN out.max_x ELSE call.own,
     thr |-> IF fields_config[call.i].field_name = "pekerjaan"
             THEN out.thr ELSE call.thr]

\* Lines 271-277 with an empty token list: the call returns at line 274
ConcReturnEmpty(c) ==
    /\ calls[c].at = "idle"
    /\ \E r \in ConcInputs :
           /\ Len(convert_format(r)) = 0
           /\ calls' = [calls EXCEPT ![c] = [IdleCall EXCEPT !.at = "done"]]
    /\ UNCHANGED <<self_max_x, levVars, dateVars, reqVars, normVars, smartVars>>

\* Lines 271-280: the call converts its input and resets self.max_x
ConcStart(c) ==
    /\ calls[c].at = "idle"
    /\ \E r \in ConcInputs :
           /\ Len(convert_format(r)) > 0
           /\ calls' = [calls EXCEPT ![c] =
                            [IdleCall EXCEPT !.at = "loop",
                                             !.ls_word = convert_format(r),
                                             !.i = 1]]
    /\ self_max_x' = ResetMaxX(self_max_x)
    /\ UNCHANGED <<levVars, dateVars, reqVars, normVars, smartVars>>

\* The assignments of one iteration whose call of get_attribute_ktp gave out
StoreStep(c, out) ==
    /\ calls' = [calls EXCEPT ![c] = AfterStep(calls[c], out)]
    /\ self_max_x' = out.max_x

\* Lines 282-291: one iteration of the loop, get_attribute_ktp reading and
\* writing the instance's max_x
ConcStep(c) ==
    /\ calls[c].at = "loop"
    /\ calls[c].i <= NumFields
    /\ StoreStep(c, ResolveStep(calls[c].ls_word, calls[c].i, self_max_x))
    /\ UNCHANGED <<levVars, dateVars, reqVars, normVars, smartVars>>

\* Line 293
ConcReturn(c) ==
    /\ calls[c].at = "loop"
    /\ calls[c].i > NumFields
    /\ calls' = [calls EXCEPT ![c].at = "done"]
    /\ UNCHANGED <<self_max_x, levVars, dateVars, reqVars, normVars, smartVars>>

NextConc ==
    \E c \in Callers :
        ConcReturnEmpty(c) \/ ConcStart(c) \/ ConcStep(c) \/ ConcReturn(c)

SpecConc == InitConc /\ [][NextConc]_vars

----------------------------------------------------------------------------
(* Specification SpecFields: one extraction of a card holding one row of   *)
(* tokens (a second row in WideCards): a label followed by value tokens,   *)
(* or a few labels side by side.                                           *)

TokenGap == 200

TokenW == 80

\* The labels as tokens on one row, left to right from x = 0
RowOf(labels, y) ==
    AsList([k \in 1..Len(labels) |->
               Annotation(labels[k], Quad(TokenGap * (k - 1), y, TokenW, BoxH))],
           Len(labels))

MaxValues == 3

\* Rows with blood-type sub-label fragments among the values
BloodAnchors == { <<"A", "l", "a", "m", "a", "t">>, <<"A", "g", "a", "m", "a">>, <<"D", "a", "r", "a", "h">> }

BloodValues == { <<"G", "o", "l", ".">>, <<"g", "o", "l">>, <<"D", "a", "r", "a", "h">>, <<"J", "L">> }

BloodCards ==
    {RowOf(<<label>> \o vals, 0) :
        label \in BloodAnchors, vals \in SeqsUpTo(BloodValues, MaxValues)}

\* An occupation row below an optional NIK row, its value far to the right
WideXs == {200, 9999, 10000, 20000}

NikParts == { <<>>, RowOf(<< <<"N", "I", "K">> >>, 0), RowOf(<< <<"N", "I", "K">>, <<"3", "1", "7", "1">> >>, 0) }

WideValues ==
    { << <<"G", "U", "R", "U">> >>, << <<"K", "A", "R", "T", "U">> >>, << <<"G", "U", "R", "U">>, <<"K", "A", "R", "T", "U">> >>,
      << <<"G", "U", "R", "U">>, <<"H", "O", "N", "O", "R", "E", "R">> >> }

WideRow(vals, x) ==
    <<Annotation(<<"P", "e", "k", "e", "r", "j", "a", "a", "n">>, Quad(0, SecondRow, TokenW, BoxH))>>
        \o AsList([k \in 1..Len(vals) |->
                      Annotation(vals[k],
                                 Quad(x + TokenGap * (k - 1), SecondRow, TokenW, BoxH))],
                  Len(vals))

WideCards ==
    {nik \o WideRow(vals, x) : nik \in NikParts, vals \in WideValues, x \in WideXs}

\* Citizenship rows
CitizenAnchors ==
    { <<"K", "e", "w", "a", "r", "g", "a", "n", "e", "g", "a", "r", "a", "a", "n">>, <<"K", "e", "w", "a", "r", "g", "a", "n", "e", "g", "a", "r", "a", "a", "n", ":">>, <<"K", "e", "w", "a", "r", "g", "a", "n", "e", "g", "a", "r", "a", "n">>, <<"A", "g", "a", "m", "a">> }

CitizenValues == { <<"W", "N", "I">>, <<"W", "N", "A">>, <<"J", "E", "R", "M", "A", "N">>, <<":">> }

CitizenCards ==
    {RowOf(<<label>> \o vals, 0) :
        label \in CitizenAnchors, vals \in SeqsUpTo(CitizenValues, 2)}

\* District rows: labels at several distances from 'kabupaten' and 'kota'
KotaAnchors ==
    { <<"K", "A", "B", "U", "P", "A", "T", "E", "N">>, <<"K", "A", "B", "U", "P", "A", "T", "N">>, <<"K", "A", "B", "P", "A", "T", "N">>, <<"K", "B", "P", "A", "T", "N">>, <<"K", "O", "T", "A">>, <<"K", "0", "T", "A">>,
      <<"K", "0", "T", "4">> }

KotaValues == { <<"B", "O", "G", "O", "R">>, <<"B", "A", "R", "A", "T", ":">>, <<"K", "O", "T", "A">>, <<":", " ", "X">> }

KotaCards ==
    {RowOf(<<label>> \o vals, 0) :
        label \in KotaAnchors, vals \in SeqsUpTo(KotaValues, 2)}

\* Labels side by side: equal distances, slash and space forms, province
\* names
MaxLabels == 2

LabelTexts ==
    { <<"N", "a", "m", "a">>, <<"N", "A", "M", "A">>, <<"N", "a", "m", "x">>, <<"J", "A", "W", "A">>, <<"T", "e", "m", "p", "a", "t", "/", "T", "g", "l">>, <<"T", "e", "m", "p", "a", "t", " ", "T", "g", "l">>,
      <<"p", "e", "k", "a", "m", "e", "r", "j", "a">>, <<"B", "U", "D", "I">>, <<"K", "e", "l", " ", "D", "e", "s", "a">> }

LabelCards ==
    {RowOf(labels, 0) : labels \in SeqsUpTo(LabelTexts, MaxLabels) \ {<<>>}}

FieldResponses ==
    {[textAnnotations |-> a] :
        a \in BloodCards \cup WideCards \cup CitizenCards \cup KotaCards
                  \cup LabelCards}

InitFields ==
    /\ self_max_x = MaxXSentinel
    /\ pc = "extract"
    /\ provider = "google"
    /\ ocr_result \in FieldResponses
    /\ result = NoResult
    /\ LevIdle /\ DateIdle /\ CallsIdle /\ NormIdle /\ SmartIdle

NextFields == ExtractKtp \/ Respond

SpecFields == InitFields /\ [][NextFields]_vars

----------------------------------------------------------------------------
(* Specification SpecSmart: calls of SmartOCRService.extract_text and      *)
(* extract_text_from_bytes on one instance, one after another              *)
(* (smart_ocr_service.py:33-104).                                          *)

Methods == {"extract_text", "extract_text_from_bytes"}

\* Results at the edge of the text length _validate_ocr_result asks for
EdgeResponses ==
    { [x \in {} |-> x],
      [textAnnotations |-> <<>>],
      [textAnnotations |-> <<Annotation(<<"3", "1", "7", "1", "0", "2", "0", "3", "0", "4">>, Quad(200, 0, 100, BoxH))>>],
      [textAnnotations |-> <<Annotation(<<"3", "1", "7", "1", "0", "2", "0", "3", "0">>, Quad(200, 0, 100, BoxH))>>],
      [textAnnotations |-> <<Annotation(<<" ", "3", "1", "7", "1", "0", "2", "0", "3", " ">>, Quad(200, 0, 100, BoxH))>>],
      [textAnnotations |-> <<Annotation(<<" ", "3", "1", "7", "1", "0", "2">>, Quad(200, 0, 100, BoxH)),
                             Annotation(<<"0", "3", "0", "4">>, Quad(400, 0, 100, BoxH))>>],
      [textAnnotations |-> <<Annotation(<<"P", "e", "k", "e", "r", "j", "a", "a", "n">>, Quad(0, 0, 80, BoxH)),
                             [boundingPoly |-> [vertices |-> <<>>]],
                             Annotation(<<"X">>, Quad(200, 0, 80, BoxH))>>] }

\* What a call of OCRService.extract_text or extract_text_from_bytes does
\* (ocr_service.py:14-41): it raises, or returns a dict
GoogleReplies == {Failed} \cup {Replied(r) : r \in GoogleResponses \cup EdgeResponses}

\* What a call of PaddleOCRService.extract_text or extract_text_from_bytes
\* does (paddle_ocr_service.py:15-31)
PaddleReplies == {Failed} \cup {Replied(_convert_to_gcv_format(p)) : p \in PaddleResults}

\* SmartOCRService.__init__, lines 10-29: google_ocr and use_google are set
\* together, when the credentials exist and OCRService() does not raise
InitSmart ==
    /\ \E configured \in BOOLEAN :
           /\ use_google = configured
           /\ google_ocr = IF configured THEN "OCRService" ELSE "None"
    /\ CallIdle
    /\ self_max_x = MaxXSentinel
    /\ ReqIdle /\ LevIdle /\ DateIdle /\ CallsIdle /\ NormIdle

\* Lines 33-38 and 70-75: the call is entered
EnterCall ==
    /\ smart_pc = "idle"
    /\ \E m \in Methods : called_method' = m
    /\ smart_pc' = IF use_google /\ google_ocr # "None" THEN "google" ELSE "paddle"
    /\ UNCHANGED <<use_google, google_ocr, invoked, google_reply, paddle_reply, returned>>
    /\ UNCHANGED <<self_max_x, reqVars, levVars, dateVars, calls, normVars>>

\* Lines 39-52 and 76-88
TryGoogle ==
    /\ smart_pc = "google"
    /\ \E reply \in GoogleReplies :
           /\ google_reply' = reply
           /\ IF GoogleAccepted(reply)
              THEN returned' = Replied(reply.value) /\ smart_pc' = "return"
              ELSE returned' = returned /\ smart_pc' = "paddle"
    /\ invoked' = Append(invoked, "google")
    /\ UNCHANGED <<use_google, google_ocr, called_method, paddle_reply>>
    /\ UNCHANGED <<self_max_x, reqVars, levVars, dateVars, calls, normVars>>

\* Lines 55-68 and 91-104
TryPaddle ==
    /\ smart_pc = "paddle"
    /\ \E reply \in PaddleReplies :
           /\ paddle_reply' = reply
           /\ returned' = PaddleOutcome(reply)
    /\ invoked' = Append(invoked, "paddle")
    /\ smart_pc' = "return"
    /\ UNCHANGED <<use_google, google_ocr, called_method, google_reply>>
    /\ UNCHANGED <<self_max_x, reqVars, levVars, dateVars, calls, normVars>>

\* The caller has the result or the exception (main.py:81); the call's
\* locals are gone
LeaveCall ==
    /\ smart_pc = "return"
    /\ smart_pc' = "idle"
    /\ called_method' = "none"
    /\ invoked' = <<>>
    /\ google_reply' = NoReply
    /\ paddle_reply' = NoReply
    /\ returned' = NoReply
    /\ UNCHANGED <<use_google, google_ocr>>
    /\ UNCHANGED <<self_max_x, reqVars, levVars, dateVars, calls, normVars>>

NextSmart == EnterCall \/ TryGoogle \/ TryPaddle \/ LeaveCall

SpecSmart == InitSmart /\ [][NextSmart]_vars
----------------------------------------------------------------------------
(* Properties *)

\* x occurs in the sequence s
InSeq(x, s) == \E k \in 1..Len(s) : s[k] = x

\* The annotations of a response, none when it has no textAnnotations
AnnotationsOf(text_response) == Get(text_response, "textAnnotations", <<>>)

\* A non-empty list of well-formed tokens: a label and four corner points
WellFormedTokens(text_response) ==
    /\ Len(AnnotationsOf(text_response)) > 0
    /\ \A i \in 1..Len(AnnotationsOf(text_response)) :
           /\ HasFourVertices(AnnotationsOf(text_response)[i])
           /\ HasKey(AnnotationsOf(text_response)[i], "description")

\* No usable token: no textAnnotations, an empty list, or only entries
\* without boundingPoly, without vertices or with fewer than four of them
Unusable(text_response) ==
    \A i \in 1..Len(AnnotationsOf(text_response)) :
        ~HasFourVertices(AnnotationsOf(text_response)[i])

\* C1: for every non-empty list of well-formed tokens extract_ktp_data
\* returns a record without raising, and a field whose label was not located
\* is null.
C1_NoResolutionRaises ==
    (pc = "respond" /\ WellFormedTokens(ocr_result))
        => /\ ~result.raised
           /\ \A f \in FieldNames :
                  result.steps[f].anchor = 0 => result.steps[f].ret = None

\* C2: whatever the interleaving of the calls' loop iterations, the
\* threshold a call's pekerjaan filter read is the one that call's nik step
\* wrote, or the sentinel when it wrote none.
C2_ThresholdIsTheCallsOwn ==
    \A c \in DOMAIN calls : calls[c].thr # NoRead => calls[c].thr = calls[c].own

\* C3: levenshtein(a, b) is the classic unit-cost edit distance of a and b.
C3_LevenshteinIsEditDistance ==
    dist # NoDist => dist = EditDistance(source, target)

\* C4: levenshtein is symmetric, levenshtein(a, b) = levenshtein(b, a).
C4_LevenshteinSymmetric ==
    dist # NoDist => dist = levenshtein(target, source)

\* C5: the first entry of the token list PaddleOCRService builds, the
\* whole-image text, takes no part in any field resolution: no distance is
\* computed for it, it is not the anchor and it is not a value token.
C5_AggregateExcluded ==
    (pc = "respond" /\ provider = "paddle" /\ Len(AnnotationsOf(ocr_result)) > 0)
        => \A f \in FieldNames :
               /\ result.steps[f].anchor # 1
               /\ ~InSeq(1, result.steps[f].matched)
               /\ ~InSeq(1, result.steps[f].values)

\* C6: an extraction with no usable token returns the record with all 17
\* fields null and raises nothing.
C6_UnusableInputAllNull ==
    (pc = "respond" /\ Unusable(ocr_result))
        => ~result.raised /\ result.data = EmptyKTPData

\* C6, its case: a response of two unusable entries was extracted, after a
\* call that had set the threshold, and gave the all-null record.
C6_Witness ==
    /\ pc = "respond"
    /\ Len(AnnotationsOf(ocr_result)) = 2
    /\ Unusable(ocr_result)
    /\ result.entry # MaxXSentinel
    /\ ~result.raised
    /\ result.data = EmptyKTPData

\* The outcome a caller sees: the exception or the record
SameOutcome(r, fresh) == r.raised = fresh.raised /\ r.data = fresh.data

\* C7: in a sequence of calls on one instance, what a call returns is what a
\* fresh instance returns for the same token list.
C7_OutcomeIndependentOfEarlierCalls ==
    pc = "respond" => SameOutcome(result, extract_ktp_data(ocr_result, MaxXSentinel))

\* Some token the pekerjaan value is built from starts to the right of x
KeptRightOf(text_response, kept, x) ==
    \E k \in 1..Len(kept) :
        Get(AnnotationsOf(text_response)[kept[k]].boundingPoly.vertices[1], "x", 0) > x

\* C7, its case: the call found a threshold left by an earlier call's nik
\* step, its pekerjaan filter read the sentinel, and the value it returned is
\* built from a token to the right of the threshold it found.
C7_Witness ==
    /\ pc = "respond"
    /\ result.entry # MaxXSentinel
    /\ result.steps["pekerjaan"].thr = MaxXSentinel
    /\ result.data.pekerjaan # None
    /\ KeptRightOf(ocr_result, result.steps["pekerjaan"].kept, result.entry)

RECURSIVE DigitsOfLabels(_, _, _)
\* The digit characters of the labels of annotations first..last, in order
DigitsOfLabels(annotations, first, last) ==
    IF first > last THEN <<>>
    ELSE DigitsOf(annotations[first].description)
             \o DigitsOfLabels(annotations, first + 1, last)

\* The tokens on the anchor's row and angle that have content (lines
\* 118-123)
RowTokens(ls_word, anchor) == PosOf(SelectSeq(OnRowWords(ls_word, anchor), HasContent))

\* The label is the first token, within distance 1 of 'nik', and the
\* NikTokens digit-bearing tokens after it are the tokens collected on its row
NikRowCase(text_response, nik_step) ==
    /\ Len(AnnotationsOf(text_response)) > NikTokens
    /\ levenshtein(<<"n", "i", "k">>, Lower(AnnotationsOf(text_response)[1].description)) <= 1
    /\ nik_step.anchor = 1
    /\ RowTokens(convert_format(text_response), convert_format(text_response)[1])
           = AsList([k \in 1..NikTokens |-> k + 1], NikTokens)
    /\ \A k \in 2..(NikTokens + 1) :
           Len(DigitsOf(AnnotationsOf(text_response)[k].description)) > 0

\* None of the NikTokens tokens is within distance 1 of 'gol.' or 'darah'
NoBloodLabelLike(text_response) ==
    \A k \in 2..(NikTokens + 1) :
        /\ levenshtein(<<"g", "o", "l", ".">>, Lower(AnnotationsOf(text_response)[k].description)) > 1
        /\ levenshtein(<<"d", "a", "r", "a", "h">>, Lower(AnnotationsOf(text_response)[k].description)) > 1

NikIsRowDigits(text_response, r) ==
    ~r.raised /\ r.data.nik = DigitsOfLabels(AnnotationsOf(text_response), 2, NikTokens + 1)

\* C8 as stated: with a label within distance 1 of 'nik' and NikTokens
\* digit-bearing tokens as the only tokens collected on its row, the output
\* nik is the digits of those tokens in provider order.
C8_NikIsRowDigits ==
    (pc = "respond" /\ NikRowCase(ocr_result, result.steps["nik"]))
        => NikIsRowDigits(ocr_result, result)

\* C8, amended: the same, when none of the digit-bearing tokens is within
\* distance 1 of 'gol.' or 'darah' (lines 126-134 remove such a token).
C8_NikIsRowDigitsUnlessBloodLabel ==
    (pc = "respond" /\ NikRowCase(ocr_result, result.steps["nik"])
                    /\ NoBloodLabelLike(ocr_result))
        => NikIsRowDigits(ocr_result, result)

\* C8, its case: a row whose eighth token carries a letter and a hyphen
\* beside its digit, with a further entry off the row, gave a nik of as many
\* digits as the row has tokens.
C8_Witness ==
    /\ pc = "respond"
    /\ NikRowCase(ocr_result, result.steps["nik"])
    /\ NoBloodLabelLike(ocr_result)
    /\ Len(AnnotationsOf(ocr_result)) = NikTokens + 2
    /\ AnnotationsOf(ocr_result)[9].description = <<"A", "-", "7">>
    /\ Len(result.data.nik) = NikTokens

GenderEnum == { <<"L", "A", "K", "I", "-", "L", "A", "K", "I">>, <<"P", "E", "R", "E", "M", "P", "U", "A", "N">> }

BloodEnum == { <<"A">>, <<"B">>, <<"A", "B">>, <<"O">> }

MaritalEnum == { <<"B", "E", "L", "U", "M", " ", "K", "A", "W", "I", "N">>, <<"K", "A", "W", "I", "N">>, <<"C", "E", "R", "A", "I">> }

\* C9: in every record returned, jenis_kelamin, golongan_darah and
\* status_perkawinan are null or members of their enumerations.
C9_EnumFieldsInRange ==
    (pc = "respond" /\ ~result.raised)
        => /\ result.data.jenis_kelamin \in GenderEnum \cup {None}
           /\ result.data.golongan_darah \in BloodEnum \cup {None}
           /\ result.data.status_perkawinan \in MaritalEnum \cup {None}

\* C9, its case: the status resolver returned a text that is no marital
\* status, and the record's status_perkawinan is null.
C9_Witness ==
    /\ pc = "respond"
    /\ ~result.raised
    /\ result.steps["status_perkawinan"].ret = <<"G", "U", "R", "U">>
    /\ result.data.status_perkawinan = None

\* C10: extract_date raises nothing and returns null or a calendar date with
\* a year in MinYear..MaxYear; it returns null for the empty string and for
\* a string without digits.
C10_ExtractDateNullOrInRange ==
    date_result # Pending
        => /\ date_result \notin {ValueError, Raised}
           /\ \/ date_result = NoDate
              \/ /\ date_result[1] \in MinYear..MaxYear
                 /\ date_result[2] \in 1..12
                 /\ date_result[3] \in 1..DaysInMonth(date_result[1], date_result[2])
           /\ (Len(DigitsOf(date_string)) = 0 => date_result = NoDate)

\* C10, its case: a string matching the date pattern with a day its month
\* does not have was parsed to null.
C10_Witness ==
    date_string = <<"3", "1", "-", "0", "4", "-", "2", "0", "0", "0">> /\ date_result = NoDate


\* The table entries whose key is within the entry's tolerance of the text,
\* the tolerance being a maximum edit distance
WithinTolerance(occ_lower) ==
    {i \in 1..Len(occupation_mapping) :
        EditDistance(occupation_mapping[i].key, occ_lower)
            <= occupation_mapping[i].tolerance}

\* The first of a non-empty set of table entries, in the table's order
FirstEntry(entries) == CHOOSE i \in entries : \A j \in entries : i <= j

\* Every key of the table is normalised to its own canonical form
KeysYieldOwnForm ==
    \A i \in 1..Len(occupation_mapping) :
        occupation = occupation_mapping[i].key
            => normalized = occupation_mapping[i].value

\* C11: normalize_occupation returns the canonical form of the first table
\* entry whose key is within that entry's tolerance of the lowercased input,
\* and the input unchanged when there is none; 'Pegawai Negeri Sipil' gives
\* 'Pegawai Negeri Sipil', 'peg negeri' gives 'Pegawai Negeri', and each key
\* of the table gives its own canonical form.
C11_FirstEntryWithinTolerance ==
    normalized # NoOccupation
        => /\ (Truthy(occupation) /\ WithinTolerance(Lower(occupation)) # {})
                  => normalized
                         = occupation_mapping[
                               FirstEntry(WithinTolerance(Lower(occupation)))].value
           /\ (~Truthy(occupation) \/ WithinTolerance(Lower(occupation)) = {})
                  => normalized = occupation
           /\ (occupation = <<"P", "e", "g", "a", "w", "a", "i", " ", "N", "e", "g", "e", "r", "i", " ", "S", "i", "p", "i", "l">>
                  => normalized = <<"P", "e", "g", "a", "w", "a", "i", " ", "N", "e", "g", "e", "r", "i", " ", "S", "i", "p", "i", "l">>)
           /\ (occupation = <<"p", "e", "g", " ", "n", "e", "g", "e", "r", "i">> => normalized = <<"P", "e", "g", "a", "w", "a", "i", " ", "N", "e", "g", "e", "r", "i">>)
           /\ KeysYieldOwnForm

\* C12: levenshtein(s, s) = 0 for every string s, the empty string included.
C12_LevenshteinSelfZero ==
    (dist # NoDist /\ source = target) => dist = 0

\* C12, its case: the distance of a string of MaxSelfLen characters to
\* itself was computed by the loop of lines 19-27, and is 0.
C12_Witness ==
    /\ Len(source) = MaxSelfLen
    /\ target = source
    /\ \E i \in 1..(Len(source) - 1) : source[i] # source[i + 1]
    /\ dist = 0

\* d-m-y is a calendar date with its year in MinYear..MaxYear
ValidDayMonthYear(d, m, y) ==
    /\ ParseInt(y) \in MinYear..MaxYear
    /\ ParseInt(m) \in 1..12
    /\ ParseInt(d) \in 1..DaysInMonth(ParseInt(y), ParseInt(m))

\* C13: for a raw ttl 'P, D' with P of letters and spaces and D a valid
\* date D(D)-M(M)-YYYY with its year in 1910..2100, the record's
\* tempat_lahir is P trimmed and uppercased and its tanggal_lahir is that
\* date.
C13_PlaceAndDateOfTtl ==
    ttl_record # NoRecord
        => \A place \in Places, d \in TtlDays, m \in TtlMonths, y \in TtlYears :
               (raw_ttl = PlaceCommaDate(place, d, m, y) /\ ValidDayMonthYear(d, m, y))
                   => /\ ttl_record.tempat_lahir = Upper(Strip(place))
                      /\ ttl_record.tanggal_lahir
                             = <<ParseInt(y), ParseInt(m), ParseInt(d)>>

\* C13, its case: ' jakarta , 29-2-2000' gave JAKARTA and 2000-02-29.
C13_Witness ==
    /\ raw_ttl = PlaceCommaDate(<<" ", "j", "a", "k", "a", "r", "t", "a", " ">>, <<"2", "9">>, <<"2">>, <<"2", "0", "0", "0">>)
    /\ ttl_record = [tempat_lahir |-> <<"J", "A", "K", "A", "R", "T", "A">>, tanggal_lahir |-> <<2000, 2, 29>>]

\* The digit characters of s are one run of exactly 8 consecutive digits
OneRunOfEight(s) ==
    \E i \in 1..(Len(s) - 7) :
        \A k \in 1..Len(s) : IsDigit(s[k]) <=> k \in i..(i + 7)

\* C17: when the string holds no D(D)-M(M)-YYYY pattern, extract_date
\* yields a date only from a run of exactly 8 consecutive digits; a string
\* whose digits do not form one such run yields null.
C17_FallbackNeedsEightConsecutive ==
    (date_result # Pending /\ ~HasDateMatch(date_string)
                           /\ ~OneRunOfEight(date_string))
        => date_result = NoDate

\* Eight digits read as DDMMYYYY
ReadAsDayMonthYear(tgl) ==
    <<ParseInt(SubSeq(tgl, 5, 8)), ParseInt(SubSeq(tgl, 3, 4)),
      ParseInt(SubSeq(tgl, 1, 2))>>

\* C17, amended: when the string holds no D(D)-M(M)-YYYY pattern,
\* extract_date yields a date only when the string has exactly 8 digit
\* characters in all, consecutive or not, and that date is its digits in
\* order read as DDMMYYYY; with any other number of digits it yields null.
C17_FallbackNeedsEightDigits ==
    (date_result # Pending /\ ~HasDateMatch(date_string))
        => IF Len(DigitsOf(date_string)) = 8
           THEN date_result \in {NoDate, ReadAsDayMonthYear(DigitsOf(date_string))}
           ELSE date_result = NoDate

\* C17, its case: 8 digits separated by slashes were read as a date.
C17_Witness ==
    date_string = <<"0", "9", "/", "0", "2", "/", "2", "0", "0", "0">> /\ date_result = <<2000, 2, 9>>

\* The label of the token at position pos of the response
LabelAt(text_response, pos) == AnnotationsOf(text_response)[pos].description

\* The positions listed in a sequence
PosSet(positions) == {positions[k] : k \in 1..Len(positions)}

GolLike(label) == EditDistance(<<"g", "o", "l", ".">>, Lower(label)) <= 1

DarahLike(label) == EditDistance(<<"d", "a", "r", "a", "h">>, Lower(label)) <= 1

WordsOf(text_response, f) ==
    IF f = "nama" THEN SelectSeq(convert_format(text_response), NotJawaNusa)
    ELSE convert_format(text_response)

\* The token at position pos of the response
WordAt(text_response, pos) == Boxes(AnnotationsOf(text_response)[pos], pos)

\* The tokens of the anchor's row, before the removals of lines 126-134
RowOfAnchor(text_response, f, anchor) ==
    PosSet(RowTokens(WordsOf(text_response, f), WordAt(text_response, anchor)))

\* Of the row's tokens, exactly one within distance 1 of 'gol.' and one
\* within distance 1 of 'darah' are missing from the values, when the row has
\* any, and no other token is
OneOfEachRemoved(text_response, row, values) ==
    /\ values \subseteq row
    /\ \A p \in row \ values :
           GolLike(LabelAt(text_response, p)) \/ DarahLike(LabelAt(text_response, p))
    /\ Cardinality({p \in row \ values : GolLike(LabelAt(text_response, p))})
           = Min2(1, Cardinality({p \in row : GolLike(LabelAt(text_response, p))}))
    /\ Cardinality({p \in row \ values : DarahLike(LabelAt(text_response, p))})
           = Min2(1, Cardinality({p \in row : DarahLike(LabelAt(text_response, p))}))

C15_SentinelIsUnbounded ==
    (pc = "respond" /\ ~result.raised /\ ~NikWrote(result.steps["nik"])
                    /\ result.steps["pekerjaan"].anchor # 0)
        => /\ Cardinality(PosSet(result.steps["pekerjaan"].values)
                              \ PosSet(result.steps["pekerjaan"].kept)) <= 1
           /\ \A p \in PosSet(result.steps["pekerjaan"].values)
                           \ PosSet(result.steps["pekerjaan"].kept) :
                  EditDistance(<<"k", "a", "r", "t", "u">>, Lower(LabelAt(ocr_result, p))) <= 2

\* C16: whenever the kewarganegaraan anchor is located and a value token
\* survives collection the field resolves to 'WNI', whatever the tokens'
\* labels; the leftmost-x1 branch is never taken, and the record's
\* kewarganegaraan is null or 'INDONESIA'.
C16_CitizenshipWniOrNull ==
    (pc = "respond" /\ ~result.raised)
        => /\ (/\ result.steps["kewarganegaraan"].anchor # 0
               /\ Len(result.steps["kewarganegaraan"].values) > 0)
                  => result.steps["kewarganegaraan"].ret = <<"W", "N", "I">>
           /\ result.steps["kewarganegaraan"].kept = <<>>
           /\ result.data.kewarganegaraan \in {None, <<"I", "N", "D", "O", "N", "E", "S", "I", "A">>}

\* C16, its case: the only value token after the label is 'JERMAN', and
\* the record says INDONESIA.
C16_Witness ==
    /\ pc = "respond"
    /\ result.steps["kewarganegaraan"].anchor = 1
    /\ result.steps["kewarganegaraan"].values = <<2>>
    /\ LabelAt(ocr_result, 2) = <<"J", "E", "R", "M", "A", "N">>
    /\ result.data.kewarganegaraan = <<"I", "N", "D", "O", "N", "E", "S", "I", "A">>

\* The row of FieldSpec for field f
FieldSpecOf(f) == fields_config[CHOOSE i \in 1..NumFields : fields_config[i].field_name = f]

\* The edit distance of a lowercased label to the keyword, and to the
\* keyword with '/' replaced by a space when it has one
KeywordDistance(kw, label) ==
    IF HasSlash(kw)
    THEN Min2(EditDistance(kw, label), EditDistance(SlashToSpace(kw), label))
    ELSE EditDistance(kw, label)

\* The distances of all the tokens of the response, in provider order
TokenDistances(text_response, kw) ==
    AsList([p \in 1..Len(AnnotationsOf(text_response)) |->
               KeywordDistance(kw, Lower(LabelAt(text_response, p)))],
           Len(AnnotationsOf(text_response)))

\* Not-found exactly when the least distance exceeds the tolerance, else the
\* first token at the least distance
FirstClosestWithin(anchor, dists, tol) ==
    IF SeqMin(dists) > tol THEN anchor = 0 ELSE anchor = ArgMin(dists)

\* C18: a field other than kota is reported not-found exactly when the
\* least distance over all tokens exceeds the field's tolerance; otherwise
\* its anchor is the first token, in provider order, at the least distance.
C18_AnchorIsFirstClosest ==
    (pc = "respond" /\ Len(AnnotationsOf(ocr_result)) > 0)
        => \A f \in FieldNames \ {"kota"} :
               FirstClosestWithin(result.steps[f].anchor,
                                  TokenDistances(ocr_result, FieldSpecOf(f).keywords),
                                  FieldSpecOf(f).typo_tolerance)

\* No token of the response is within edit distance tol of the keyword
NoTokenWithin(text_response, kw, tol) ==
    \A p \in 1..Len(AnnotationsOf(text_response)) :
        EditDistance(kw, Lower(LabelAt(text_response, p))) > tol

\* C19: the resolution of kota ends after at most one retry: the retry with
\* 'kota' and tolerance 1 is made only when no token is within distance 2 of
\* 'kabupaten', at most once in a call, and when it finds no token within
\* its tolerance either the field is not-found; no other field retries.
C19_KotaRetriesAtMostOnce ==
    (pc = "respond" /\ Len(AnnotationsOf(ocr_result)) > 0)
        => /\ result.steps["kota"].attempts \in {1, 2}
           /\ \A f \in FieldNames \ {"kota"} : result.steps[f].attempts = 1
           /\ result.steps["kota"].attempts = 2
                  => NoTokenWithin(ocr_result, <<"k", "a", "b", "u", "p", "a", "t", "e", "n">>, 2)
           /\ (result.steps["kota"].attempts = 2 /\ NoTokenWithin(ocr_result, <<"k", "o", "t", "a">>, 1))
                  => /\ result.steps["kota"].anchor = 0
                     /\ result.steps["kota"].ret = None

\* C19, its case: the only label is 'K0T4', two edits from 'kota'; the
\* retry was made and kota is not-found.
C19_Witness ==
    /\ pc = "respond"
    /\ LabelAt(ocr_result, 1) = <<"K", "0", "T", "4">>
    /\ Len(AnnotationsOf(ocr_result)) = 2
    /\ result.steps["kota"].attempts = 2
    /\ result.steps["kota"].anchor = 0
    /\ result.data.kota = None

\* The labels of the tokens at the positions, joined with single spaces
SpaceJoined(text_response, positions) ==
    Join(<<" ">>, AsList([k \in 1..Len(positions) |->
                             LabelAt(text_response, positions[k])], Len(positions)))

\* 'KABUPATEN ' for an anchor found at the first entry, 'KOTA ' for one
\* found by the retry
KotaPrefix(kota_step) ==
    IF kota_step.attempts = 1 THEN <<"K", "A", "B", "U", "P", "A", "T", "E", "N", " ">> ELSE <<"K", "O", "T", "A", " ">>

\* C20: whenever a kota anchor is located the record's kota is non-null and
\* is 'KABUPATEN ' or 'KOTA ' followed by the space-joined value labels; with
\* no value token it is the bare prefix.
C20_KotaIsPrefixAndLabels ==
    (pc = "respond" /\ ~result.raised /\ result.steps["kota"].anchor # 0)
        => /\ result.data.kota # None
           /\ result.data.kota
                  = KotaPrefix(result.steps["kota"])
                        \o SpaceJoined(ocr_result, result.steps["kota"].values)

\* s without its ': ' and then without its ':'
WithoutColons(s) == RemoveAll(RemoveAll(s, <<":", " ">>), <<":">>)

\* C20, amended: whenever a kota anchor is located the record's kota is
\* non-null and is 'KABUPATEN ' or 'KOTA ' followed by the space-joined
\* value labels, trimmed, the whole with every ': ' and then every ':'
\* removed; with no value token it is the bare prefix.
C20_KotaIsPrefixAndLabelsSansColons ==
    (pc = "respond" /\ ~result.raised /\ result.steps["kota"].anchor # 0)
        => /\ result.data.kota # None
           /\ result.data.kota
                  = WithoutColons(
                        KotaPrefix(result.steps["kota"])
                            \o Strip(SpaceJoined(ocr_result, result.steps["kota"].values)))
           /\ Len(result.steps["kota"].values) = 0
                  => result.data.kota = KotaPrefix(result.steps["kota"])

\* C20, its case: the only token is the label 'KOTA', found by the retry;
\* the record's kota is the bare prefix 'KOTA '.
C20_Witness ==
    /\ pc = "respond"
    /\ ocr_result = [textAnnotations |-> RowOf(<< <<"K", "O", "T", "A">> >>, 0)]
    /\ result.steps["kota"].anchor = 1
    /\ result.steps["kota"].values = <<>>
    /\ result.data.kota = <<"K", "O", "T", "A", " ">>

\* The result has at least MinChars characters of text: the descriptions of
\* its annotations, put together and trimmed
HasEnoughText(res) ==
    /\ HasKey(res, "textAnnotations")
    /\ Len(Strip(TotalText(res.textAnnotations))) >= 10

\* Google is configured, its call did not raise and its result validates
GoogleSucceeded ==
    /\ use_google
    /\ google_reply.called
    /\ ~google_reply.raised
    /\ HasEnoughText(google_reply.value)

\* PaddleOCR's result if it validates, else the empty annotation list; the
\* exception if PaddleOCR raised
AfterPaddle ==
    IF paddle_reply.raised THEN Failed
    ELSE IF HasEnoughText(paddle_reply.value) THEN Replied(paddle_reply.value)
    ELSE Replied([textAnnotations |-> <<>>])

\* C21: a call of extract_text or extract_text_from_bytes invokes Google
\* first, and only when it is configured, then PaddleOCR at most once. When
\* it returns, it hands back Google's result exactly when Google is
\* configured, its call did not raise and its result has at least 10
\* characters of text; in every other case PaddleOCR was invoked exactly
\* once, after Google if Google was invoked, and the caller gets PaddleOCR's
\* result if it validates, else the empty annotation list, and an exception
\* only when PaddleOCR raised.
C21_GoogleThenPaddle ==
    /\ invoked \in {<<>>, <<"google">>, <<"paddle">>, <<"google", "paddle">>}
    /\ (use_google /\ smart_pc \in {"paddle", "return"}) => google_reply.called
    /\ google_reply.called <=> (Len(invoked) > 0 /\ invoked[1] = "google")
    /\ google_reply.called => use_google
    /\ paddle_reply.called <=> (Len(invoked) > 0 /\ invoked[Len(invoked)] = "paddle")
    /\ smart_pc = "return" =>
           /\ called_method \in Methods
           /\ IF GoogleSucceeded
              THEN /\ invoked = <<"google">>
                   /\ returned = Replied(google_reply.value)
              ELSE /\ invoked = IF use_google THEN <<"google", "paddle">> ELSE <<"paddle">>
                   /\ returned = AfterPaddle
           /\ returned.raised <=> (paddle_reply.called /\ paddle_reply.raised)

\* C21, its case: Google was configured and its call raised; PaddleOCR was
\* invoked after it, its result validated and is what the caller gets.
C21_Witness ==
    /\ smart_pc = "return"
    /\ use_google
    /\ google_reply.raised
    /\ invoked = <<"google", "paddle">>
    /\ ~paddle_reply.raised
    /\ HasEnoughText(paddle_reply.value)
    /\ returned = Replied(paddle_reply.value)
    /\ ~returned.raised
====
